---------------------------- MODULE Spec2Model ----------------------------
(***************************************************************************)
(* The streaming transfer pipeline of the ingestor backend.                *)
(*                                                                         *)
(* One transfer is started by IngestHandler.StartIngestion.  It runs       *)
(*   - the handler, which streams the ProgressUpdates of progressCh to the *)
(*     client and cancels the transfer when the client is gone;            *)
(*   - the orchestrating goroutine, which runs IngestClickHouseToFlatFile  *)
(*     (and in it FlatFileServiceImpl.WriteData) or                        *)
(*     IngestFlatFileToClickHouse (and in it CreateTable, ReadData's       *)
(*     set-up and ClickHouseServiceImpl.InsertData), then sends the        *)
(*     terminal event and closes progressCh;                               *)
(*   - the producer goroutine: the store-fetch goroutine of                *)
(*     IngestClickHouseToFlatFile or the reading goroutine of ReadData.    *)
(*                                                                         *)
(* Rows are identified by their position in the producer's output (1, 2,   *)
(* ...).  The source (result set or file) is revealed read by read: every  *)
(* rows.Next() / reader.Read() draws its outcome from the possible ones.   *)
(* Calls into the store driver and the file system succeed or fail         *)
(* nondeterministically.                                                   *)
(*                                                                         *)
(* Scale.  The code gives dataCh 100 slots and progressCh 10 slots; the    *)
(* model keeps both channels bounded FIFO queues and scales the two        *)
(* capacities down to DataChanCap and ProgressChanCap so that the full     *)
(* channel is reached with a handful of rows.  BatchSize and               *)
(* ProgressReportSize are configuration (environment) values, drawn in     *)
(* Init from 1..MaxBatchSize and 1..MaxReportSize.                         *)
(*                                                                         *)
(* Schema discovery (FlatFileServiceImpl.DiscoverSchema) is a request of   *)
(* its own and has a specification of its own, SchemaSpec: the sampled     *)
(* values of one column are classified by inferType one by one and reduced *)
(* by getDominantType, whose Go map is visited in any order.               *)
(***************************************************************************)
EXTENDS Integers, Sequences, FiniteSets, TLC

\* ------------------------------------------------------------------ bounds
\* Number of reads of the source (rows.Next / reader.Read) that yield a row.
MaxRows == 4
\* Capacity of dataCh in the model (100 in the code).
DataChanCap == 2
\* Capacity of progressCh in the model (10 in the code).
ProgressChanCap == 2
\* Largest configured BatchSize explored.
MaxBatchSize == 2
\* Largest configured ProgressReportSize explored.
MaxReportSize == 3
\* Largest number of sampled values of a column explored (the code samples
\* up to 100 rows).
MaxSamples == 4
\* DiscoverSchema's sampleSize in the model (100 in the code): the number of
\* iterations of its sampling loop.
SampleSize == 2
\* Largest number of data rows of a file under discovery explored.
MaxFileRows == 3
\* Largest number of header fields explored.
MaxHeader == 2
\* Largest number of tables of a join request explored.
MaxTables == 3

\* --------------------------------------------------------------- constants
\* WriteData flushes the csv writer every FlushEvery rows.
FlushEvery == 1000
\* config.Load: MAX_PREVIEW_ROWS defaults to 100.
MaxPreviewRows == 100

VARIABLES
    cfg,                \* config.Config: BatchSize, ProgressReportSize
    dir,                \* direction of the transfer: "s2f", "f2s", "invalid"
    ctxDone,            \* ctx of StartIngestion is cancelled
    clientGone,         \* c.Request.Context().Err() != nil
    dataCh,             \* buffered rows of the data channel
    dataClosed,         \* close(dataCh) / close(out) executed
    progressCh,         \* buffered ProgressUpdates of progressCh
    progressClosed,     \* close(progressCh) executed
    hpc,                \* position of the handler's streaming loop
    ppc,                \* position of the producer goroutine
    opc,                \* position of the orchestrating goroutine
    srcReads,           \* rows the source has handed out so far
    srcGood,            \* those of them that were well-formed (scanned, field count right)
    fetchTotalRows,     \* totalRows of the store-fetch goroutine
    prow,               \* the row the producer is about to send (0: none)
    perr,               \* the error event the store-fetch goroutine is about to send
    crow,               \* the row WriteData holds between receive and write (0: none)
    batch,              \* InsertData's accumulator
    totalRows,          \* totalRows of WriteData / InsertData
    lastReportedCount,  \* lastReportedCount of WriteData / InsertData
    result,             \* what the Ingest... call returned to the goroutine
    sent,               \* history: rows the producer put into dataCh
    sink,               \* history: rows delivered to the sink, in order
    progLog,            \* history: every ProgressUpdate sent on progressCh
    delivered,          \* history: ProgressUpdates streamed to the client
    srcFailure,         \* history: how the store read failed, if it did
    observed,           \* history: some task took a <-ctx.Done() branch
    sinkAfterObserved,  \* history: rows delivered to the sink after that
    submitFailedAt,     \* history: the count InsertData returned when a submit failed (-1: none did)
    submitted,          \* history: sizes of the batches handed to AsyncInsert, in order
    panicked,           \* a goroutine sent on the closed progressCh
    \* FlatFileServiceImpl.DiscoverSchema, one column of the file
    samples,            \* the column's values in the sampled rows, in row order
    types,              \* types[j]: the classifications appended so far
    dominantType,       \* getDominantType's dominantType after its counting loop
    columnType,         \* columns[j].Type, what getDominantType returned
    spc,                \* position of DiscoverSchema
    \* FlatFileServiceImpl.DiscoverSchema, the rows of a file
    header,             \* the header record
    fileRows,           \* the data rows of the file: what reader.Read() returns for each
    di,                 \* i of `for i := 0; i < sampleSize; i++`
    colTypes,           \* types [][]string
    classified,         \* history: positions in fileRows of the rows classified, in order
    columns,            \* the []model.Column under construction / returned
    derr,               \* the error DiscoverSchema returned
    dpc,                \* position of DiscoverSchema
    \* JoinHandler.BuildJoinPreview
    joinParams,         \* model.JoinParams of the request
    connOpen,           \* s.conn != nil
    joinQuery,          \* query returned by BuildJoinQuery
    joinErr,            \* err returned by BuildJoinQuery
    storeQueries,       \* history: the queries handed to conn.Query
    response,           \* the handler's response ("": none yet)
    jpc,                \* position of BuildJoinPreview
    \* IngestServiceImpl.IngestClickHouseToFlatFile, the query
    ingestParams,       \* model.IngestionParams of the request: TableName, Columns, Query
    sourceOpen,         \* s.clickhouseService.conn != nil
    query,              \* the local query of IngestClickHouseToFlatFile
    executed,           \* history: the queries handed to conn.Query by the transfer
    qpc,                \* position of IngestClickHouseToFlatFile
    \* ClickHouseServiceImpl.CreateTable, called twice
    createArgs,         \* tableName and columns of both calls
    ddlConn,            \* s.conn != nil
    storeTables,        \* the store: its table definitions
    execLog,            \* history: the statements handed to conn.Exec and what became of each
    createErrs,         \* history: what each call of CreateTable returned
    tablesAfterFirst,   \* history: the store after the first call
    cpc,                \* which call of CreateTable is next
    \* FlatFileServiceImpl.WriteData, then ReadData of the file it wrote
    rtColumns,          \* columns of both calls
    rtDelimiter,        \* delimiter of both calls
    rtData,             \* the rows WriteData receives from data, in order
    rtTotalRows,        \* totalRows of WriteData
    rtFile,             \* the file: its lines, each a sequence of characters
    rtHeader,           \* header of ReadData
    rtLine,             \* the number of lines the csv reader has consumed
    rtOut,              \* history: the rows ReadData sent to out, in order
    rtErr,              \* the error ReadData returned
    rtpc,               \* position of the write and the read
    \* ClickHouseServiceImpl shared by concurrent transfers and Connect calls
    adapterConn,        \* s.conn: 0 is nil, otherwise the number of the handle
    opened,             \* the number of handles clickhouse.Open has returned
    connLocal,          \* conn of each Connect call (0: none)
    connPc,             \* position of each Connect call
    storing,            \* the Connect calls in the middle of `s.conn = conn`
    usePc,              \* position of each transfer
    useFirst,           \* history: the handle of each transfer's first store operation (0: none yet)
    useMixed,           \* history: the transfer has operated on two different handles
    useLeft,            \* batches each transfer has still to insert
    raced,              \* history: s.conn was read while a Connect call was storing it
    \* FlatFileServiceImpl.ReadData on a file of any content
    rdColumns,          \* columns requested
    rdHeader,           \* the header record of the file
    rdFile,             \* what reader.Read() returns for each data row of the file
    rdFaulty,           \* after the last row every read of the file fails (no end-of-file)
    rdNext,             \* the number of data rows the reader has consumed
    rdRow,              \* row of the reading goroutine, about to be sent
    rdOut,              \* the channel out
    rdClosed,           \* close(out) executed
    rdSentFrom,         \* history: the position in rdFile of each row sent on out
    rdReceived,         \* history: the rows the consumer received from out
    rdCtxDone,          \* ctx of ReadData is cancelled
    rdErr,              \* the error ReadData returned
    rdPc                \* position of ReadData and of its goroutine

vars == << cfg, dir, ctxDone, clientGone, dataCh, dataClosed, progressCh,
           progressClosed, hpc, ppc, opc, srcReads, srcGood, fetchTotalRows, prow,
           perr,
           crow, batch, totalRows, lastReportedCount, result, sent, sink,
           progLog, delivered, srcFailure, observed, sinkAfterObserved,
           submitFailedAt, submitted, panicked,
           samples, types, dominantType, columnType, spc,
           header, fileRows, di, colTypes, classified, columns, derr, dpc,
           joinParams, connOpen, joinQuery, joinErr, storeQueries, response, jpc,
           ingestParams, sourceOpen, query, executed, qpc,
           createArgs, ddlConn, storeTables, execLog, createErrs, tablesAfterFirst, cpc,
           rtColumns, rtDelimiter, rtData, rtTotalRows, rtFile, rtHeader, rtLine, rtOut, rtErr, rtpc,
           adapterConn, opened, connLocal, connPc, storing, usePc, useFirst, useMixed, useLeft, raced,
           rdColumns, rdHeader, rdFile, rdFaulty, rdNext, rdRow, rdOut, rdClosed, rdSentFrom, rdReceived, rdCtxDone, rdErr, rdPc >>

NoError == ""
NoUpdate == [status |-> "", message |-> "", count |-> 0, completed |-> FALSE, from |-> ""]

Directions == {"s2f", "f2s", "invalid"}

\* ------------------------------------------------------- channel primitives
\* Off by one: a send proceeds although every slot is taken.
CanSendWhenFull(ch, cap) == Len(ch) <= cap

\* A send on a buffered channel proceeds when a slot is free.
CanSend(ch, cap) == Len(ch) < cap

\* A receive proceeds when a value is buffered.
CanRecv(ch) == Len(ch) > 0

\* `for v := range ch` ends when the channel is closed and drained.
RangeEnds(ch, closed) == Len(ch) = 0 /\ closed

\* The value a receive takes: the oldest one.
ChanHead(ch) == Head(ch)

\* --------------------------------------------------------- ProgressUpdates
\* Slip: the report interval is sent in place of the cumulative count.
ProcessingUpdateInterval(from, msg, n) ==
    [status |-> "processing", message |-> msg, count |-> cfg.ProgressReportSize,
     completed |-> FALSE, from |-> from]

\* Slip: the count of the row about to be processed is sent.
ProcessingUpdateCountAhead(from, msg, n) ==
    [status |-> "processing", message |-> msg, count |-> n + 1,
     completed |-> FALSE, from |-> from]

\* model.ProgressUpdate{Status: "processing", ..., Count: n, Completed: false}
ProcessingUpdate(from, msg, n) ==
    [status |-> "processing", message |-> msg, count |-> n,
     completed |-> FALSE, from |-> from]

\* model.ProgressUpdate{Status: "error", ..., Count: n, Completed: true}
ErrorUpdate(from, msg, n) ==
    [status |-> "error", message |-> msg, count |-> n,
     completed |-> TRUE, from |-> from]

\* model.ProgressUpdate{Status: "success", ..., Count: n, Completed: true}
SuccessUpdate(from, n) ==
    [status |-> "success", message |-> "Ingestion completed successfully",
     count |-> n, completed |-> TRUE, from |-> from]

\* The terminal event StartIngestion's goroutine builds from (result, err).
TerminalUpdate(res) ==
    IF res.err # NoError
    THEN ErrorUpdate("orchestrator", res.err, 0)
    ELSE SuccessUpdate("orchestrator", res.count)

\* ------------------------------------------------------ reporting cadence
\* Off by one: the report is sent one row before the multiple is reached.
FetchReportDueOffByOne(n, prs) == (n + 1) % prs = 0

\* store-fetch goroutine: totalRows%progressReportSize == 0
FetchReportDue(n, prs) == n % prs = 0

\* Off by one: an advance of exactly the threshold is not reported.
ReportDueOffByOne(n, last, prs) == n - last > prs

\* WriteData, InsertData: totalRows-lastReportedCount >= progressReportSize
ReportDue(n, last, prs) == n - last >= prs

\* WriteData: totalRows%1000 == 0
FlushDue(n) == n % FlushEvery = 0

\* Off by one: the batch is submitted one row late.
BatchFullOffByOne(b, size) == Len(b) > size

\* InsertData: len(batch) >= s.config.BatchSize
BatchFull(b, size) == Len(b) >= size

\* Slip: the row is put in front of the accumulated rows.
PrependBatch(b, row) == << row >> \o b

\* InsertData: batch = append(batch, rowData)
AppendBatch(b, row) == Append(b, row)

\* Slip: the rows of the failed batch are counted as inserted.
FailedSubmitCountWithBatch(n, b) == n + Len(b)

\* InsertData: `return totalRows, fmt.Errorf(...)` when AsyncInsert fails;
\* totalRows has not been advanced by the failed batch.
FailedSubmitCount(n, b) == n

\* Off by one: a trailing batch of a single row is dropped.
FinalBatchPendingOffByOne(b) == Len(b) > 1

\* InsertData: if len(batch) > 0 { ... final batch ... }
FinalBatchPending(b) == Len(b) > 0

\* -------------------------------------------------------------------- Init
\* A transfer at the entry of StartIngestion's goroutine.
TransferInit ==
    /\ cfg \in [BatchSize : 1..MaxBatchSize, ProgressReportSize : 1..MaxReportSize]
    /\ dir \in Directions
    /\ ctxDone = FALSE
    /\ clientGone = FALSE
    /\ dataCh = << >>
    /\ dataClosed = FALSE
    /\ progressCh = << >>
    /\ progressClosed = FALSE
    /\ hpc = "range"
    /\ ppc = "idle"
    /\ opc = "start"
    /\ srcReads = 0
    /\ srcGood = 0
    /\ fetchTotalRows = 0
    /\ prow = 0
    /\ perr = NoUpdate
    /\ crow = 0
    /\ batch = << >>
    /\ totalRows = 0
    /\ lastReportedCount = 0
    /\ result = [count |-> 0, err |-> NoError]
    /\ sent = << >>
    /\ sink = << >>
    /\ progLog = << >>
    /\ delivered = << >>
    /\ srcFailure = "none"
    /\ observed = FALSE
    /\ sinkAfterObserved = 0
    /\ submitFailedAt = -1
    /\ submitted = << >>
    /\ panicked = FALSE

\* No schema discovery is under way.
SchemaIdle ==
    /\ samples = << >>
    /\ types = << >>
    /\ dominantType = ""
    /\ columnType = ""
    /\ spc = "idle"

\* No file is under discovery.
DiscoverIdle ==
    /\ header = << >>
    /\ fileRows = << >>
    /\ di = 0
    /\ colTypes = << >>
    /\ classified = << >>
    /\ columns = << >>
    /\ derr = NoError
    /\ dpc = "idle"

\* No join preview is under way.
JoinIdle ==
    /\ joinParams = [Tables |-> << >>, WhereClause |-> ""]
    /\ connOpen = FALSE
    /\ joinQuery = ""
    /\ joinErr = NoError
    /\ storeQueries = << >>
    /\ response = ""
    /\ jpc = "idle"

\* No store-to-file query is under construction.
QueryIdle ==
    /\ ingestParams = [TableName |-> "", Columns |-> << >>, Query |-> ""]
    /\ sourceOpen = FALSE
    /\ query = ""
    /\ executed = << >>
    /\ qpc = "idle"

\* No table is being created.
CreateIdle ==
    /\ createArgs = [tableName |-> "", columns |-> << >>]
    /\ ddlConn = FALSE
    /\ storeTables = {}
    /\ execLog = << >>
    /\ createErrs = << >>
    /\ tablesAfterFirst = {}
    /\ cpc = "idle"

\* No file is being written and read back.
RoundTripIdle ==
    /\ rtColumns = << >>
    /\ rtDelimiter = ""
    /\ rtData = << >>
    /\ rtTotalRows = 0
    /\ rtFile = << >>
    /\ rtHeader = << >>
    /\ rtLine = 0
    /\ rtOut = << >>
    /\ rtErr = NoError
    /\ rtpc = "idle"

\* No task is using the shared store adapter.
AdapterIdle ==
    /\ adapterConn = 0
    /\ opened = 0
    /\ connLocal = << >>
    /\ connPc = << >>
    /\ storing = {}
    /\ usePc = << >>
    /\ useFirst = << >>
    /\ useMixed = << >>
    /\ useLeft = << >>
    /\ raced = FALSE

\* No file is being read.
ReadIdle ==
    /\ rdColumns = << >>
    /\ rdHeader = << >>
    /\ rdFile = << >>
    /\ rdFaulty = FALSE
    /\ rdNext = 0
    /\ rdRow = << >>
    /\ rdOut = << >>
    /\ rdClosed = FALSE
    /\ rdSentFrom = << >>
    /\ rdReceived = << >>
    /\ rdCtxDone = FALSE
    /\ rdErr = NoError
    /\ rdPc = "idle"

Init == TransferInit /\ SchemaIdle /\ DiscoverIdle /\ JoinIdle /\ QueryIdle /\ CreateIdle /\ RoundTripIdle /\ AdapterIdle /\ ReadIdle


\* ------------------------------------------------------------ frame groups
cfgVars      == << cfg, dir >>
producerVars == << ppc, srcReads, srcGood, fetchTotalRows, prow, perr, srcFailure >>
consumerVars == << opc, crow, batch, totalRows, lastReportedCount, result, submitFailedAt,
                   submitted >>
dataVars     == << dataCh, dataClosed, sent >>
progressVars == << progressCh, progressClosed, progLog >>
handlerVars  == << hpc, delivered >>
sinkVars     == << sink, sinkAfterObserved >>
schemaVars   == << samples, types, dominantType, columnType, spc >>
transferVars == << cfgVars, producerVars, consumerVars, dataVars, progressVars,
                   handlerVars, sinkVars, ctxDone, clientGone, observed, panicked >>
\* What a step of a transfer leaves alone, and what a step of schema
\* discovery leaves alone: the variables of the other one.
discoverVars == << header, fileRows, di, colTypes, classified, columns, derr, dpc >>
joinVars     == << joinParams, connOpen, joinQuery, joinErr, storeQueries, response, jpc >>
queryVars    == << ingestParams, sourceOpen, query, executed, qpc >>
createVars   == << createArgs, ddlConn, storeTables, execLog, createErrs, tablesAfterFirst, cpc >>
roundTripVars == << rtColumns, rtDelimiter, rtData, rtTotalRows, rtFile, rtHeader, rtLine, rtOut, rtErr, rtpc >>
adapterVars  == << adapterConn, opened, connLocal, connPc, storing, usePc, useFirst, useMixed, useLeft, raced >>
readVars     == << rdColumns, rdHeader, rdFile, rdFaulty, rdNext, rdRow, rdOut, rdClosed, rdSentFrom, rdReceived, rdCtxDone, rdErr, rdPc >>
besideTransfer == << schemaVars, discoverVars, joinVars, queryVars, createVars, roundTripVars, adapterVars, readVars >>
besideSchema   == << transferVars, discoverVars, joinVars, queryVars, createVars, roundTripVars, adapterVars, readVars >>
besideDiscover == << transferVars, schemaVars, joinVars, queryVars, createVars, roundTripVars, adapterVars, readVars >>
besideJoin     == << transferVars, schemaVars, discoverVars, queryVars, createVars, roundTripVars, adapterVars, readVars >>
besideQuery    == << transferVars, schemaVars, discoverVars, joinVars, createVars, roundTripVars, adapterVars, readVars >>
besideCreate   == << transferVars, schemaVars, discoverVars, joinVars, queryVars, roundTripVars, adapterVars, readVars >>
besideRoundTrip == << transferVars, schemaVars, discoverVars, joinVars, queryVars, createVars, adapterVars, readVars >>
besideAdapter  == << transferVars, schemaVars, discoverVars, joinVars, queryVars, createVars, roundTripVars, readVars >>
besideRead     == << transferVars, schemaVars, discoverVars, joinVars, queryVars, createVars, roundTripVars, adapterVars >>

\* ------------------------------------------------------- shared fragments
\* progressCh <- u.  A send on the closed channel panics; otherwise it needs
\* a free slot.
ProgressSendReady == progressClosed \/ CanSend(progressCh, ProgressChanCap)

ProgressSend(u) ==
    IF progressClosed
    THEN /\ panicked' = TRUE
         /\ UNCHANGED << progressCh, progLog >>
    ELSE /\ CanSend(progressCh, ProgressChanCap)
         /\ progressCh' = Append(progressCh, u)
         /\ progLog' = Append(progLog, u)
         /\ UNCHANGED panicked

\* The sink takes rows (records written to the file, or one submitted batch).
Deliver(rows) ==
    /\ sink' = sink \o rows
    /\ sinkAfterObserved' =
           IF observed THEN sinkAfterObserved + Len(rows) ELSE sinkAfterObserved

\* The producer goroutine returns: its deferred close(dataCh) runs.
ProducerReturn ==
    /\ ppc' = "done"
    /\ dataClosed' = TRUE
    /\ prow' = 0

\* WriteData / InsertData return (n, err) and the Ingest... wrapper returns
\* IngestionResult{TotalRecords: n}, nil or IngestionResult{}, err.
IngestReturn(n, err) ==
    /\ result' = [count |-> IF err = NoError THEN n ELSE 0, err |-> err]
    /\ opc' = "terminal"

\* ------------------------------------------------------------ environment
\* The client closes the connection: the request context, and with it ctx,
\* is cancelled.
ClientDisconnect ==
    /\ ~panicked
    /\ hpc = "range"
    /\ ~clientGone
    /\ clientGone' = TRUE
    /\ ctxDone' = TRUE
    /\ UNCHANGED besideTransfer
    /\ UNCHANGED << cfgVars, producerVars, consumerVars, dataVars, progressVars,
                    handlerVars, sinkVars, observed, panicked >>

\* ---------------------------------------------------- StartIngestion: loop
\* for progress := range progressCh { ... }: one event is taken; the handler
\* returns (cancelling ctx) when the client is gone or the write fails,
\* otherwise the event is streamed.
HandlerStream ==
    /\ ~panicked
    /\ hpc = "range"
    /\ CanRecv(progressCh)
    /\ progressCh' = Tail(progressCh)
    /\ IF clientGone
       THEN /\ hpc' = "returned"
            /\ ctxDone' = TRUE
            /\ UNCHANGED delivered
       ELSE \E ok \in BOOLEAN :
              IF ok
              THEN /\ delivered' = Append(delivered, ChanHead(progressCh))
                   /\ UNCHANGED << hpc, ctxDone >>
              ELSE /\ hpc' = "returned"
                   /\ ctxDone' = TRUE
                   /\ UNCHANGED delivered
    /\ UNCHANGED besideTransfer
    /\ UNCHANGED << cfgVars, producerVars, consumerVars, dataVars, progressClosed,
                    progLog, sinkVars, clientGone, observed, panicked >>

\* The range loop ends on the closed, drained channel; the deferred cancel()
\* runs.
HandlerEnd ==
    /\ ~panicked
    /\ hpc = "range"
    /\ RangeEnds(progressCh, progressClosed)
    /\ hpc' = "returned"
    /\ ctxDone' = TRUE
    /\ UNCHANGED besideTransfer
    /\ UNCHANGED << cfgVars, producerVars, consumerVars, dataVars, progressVars,
                    delivered, sinkVars, clientGone, observed, panicked >>

\* ----------------------------------------- StartIngestion: the goroutine
\* switch on source and target type.  Store->file: the fetch goroutine is
\* started and WriteData is entered.  File->store: CreateTable comes first.
OrchestratorStart ==
    /\ ~panicked
    /\ opc = "start"
    /\ IF dir = "s2f"
       THEN /\ ppc' = "query"
            /\ opc' = "w_open"
            /\ UNCHANGED result
       ELSE IF dir = "f2s"
       THEN /\ opc' = "create"
            /\ UNCHANGED << ppc, result >>
       ELSE /\ IngestReturn(0, "invalid source or target type")
            /\ UNCHANGED ppc
    /\ UNCHANGED besideTransfer
    /\ UNCHANGED << cfgVars, srcReads, srcGood, fetchTotalRows, prow, perr,
                    srcFailure, crow, batch, totalRows, lastReportedCount, submitFailedAt, submitted,
                    dataVars, progressVars, handlerVars, sinkVars, ctxDone,
                    clientGone, observed, panicked >>

\* The terminal event: an unconditional send on progressCh.
OrchestratorTerminal ==
    /\ ~panicked
    /\ opc = "terminal"
    /\ CanSend(progressCh, ProgressChanCap)
    /\ progressCh' = Append(progressCh, TerminalUpdate(result))
    /\ progLog' = Append(progLog, TerminalUpdate(result))
    /\ opc' = "close"
    /\ UNCHANGED besideTransfer
    /\ UNCHANGED << cfgVars, producerVars, crow, batch, totalRows, lastReportedCount,
                    result, submitFailedAt, submitted, dataVars, progressClosed, handlerVars,
                    sinkVars, ctxDone, clientGone, observed, panicked >>

\* close(progressCh)
OrchestratorClose ==
    /\ ~panicked
    /\ opc = "close"
    /\ progressClosed' = TRUE
    /\ opc' = "done"
    /\ UNCHANGED besideTransfer
    /\ UNCHANGED << cfgVars, producerVars, crow, batch, totalRows, lastReportedCount,
                    result, submitFailedAt, submitted, dataVars, progressCh, progLog,
                    handlerVars, sinkVars, ctxDone, clientGone, observed, panicked >>


\* ------------------------ IngestClickHouseToFlatFile: the fetch goroutine
\* rows, err := conn.Query(ctx, query)
FetchQuery ==
    /\ ~panicked
    /\ ppc = "query"
    /\ \E ok \in BOOLEAN :
         IF ok
         THEN /\ ppc' = "next"
              /\ UNCHANGED << perr, srcFailure >>
         ELSE /\ ppc' = "errsend"
              /\ perr' = ErrorUpdate("fetch", "Failed to execute query", 0)
              /\ srcFailure' = "query"
    /\ UNCHANGED besideTransfer
    /\ UNCHANGED << cfgVars, srcReads, srcGood, fetchTotalRows, prow, consumerVars,
                    dataVars, progressVars, handlerVars, sinkVars, ctxDone,
                    clientGone, observed, panicked >>

\* for rows.Next() { select { case <-ctx.Done(): return; default: }; Scan }
\* and, when Next() is false, rows.Err().
FetchNext ==
    /\ ~panicked
    /\ ppc = "next"
    /\ \E outcome \in {"row", "scanerr", "end", "itererr"} :
         /\ outcome \in {"row", "scanerr"} => srcReads < MaxRows
         /\ IF outcome \in {"row", "scanerr"}
            THEN IF ctxDone
                 THEN /\ ProducerReturn
                      /\ observed' = TRUE
                      /\ UNCHANGED << srcReads, srcGood, perr, srcFailure >>
                 ELSE /\ srcReads' = srcReads + 1
                      /\ IF outcome = "row"
                         THEN /\ srcGood' = srcGood + 1
                              /\ prow' = srcGood + 1
                              /\ ppc' = "f_send"
                         ELSE UNCHANGED << srcGood, prow, ppc >>
                      /\ UNCHANGED << dataClosed, observed, perr, srcFailure >>
            ELSE IF outcome = "end"
                 THEN /\ ProducerReturn
                      /\ UNCHANGED << srcReads, srcGood, observed, perr, srcFailure >>
                 ELSE /\ ppc' = "errsend"
                      /\ perr' = ErrorUpdate("fetch", "Error iterating rows", fetchTotalRows)
                      /\ srcFailure' = "iter"
                      /\ UNCHANGED << srcReads, srcGood, prow, dataClosed, observed >>
    /\ UNCHANGED besideTransfer
    /\ UNCHANGED << cfgVars, fetchTotalRows, consumerVars, dataCh, sent, progressVars,
                    handlerVars, sinkVars, ctxDone, clientGone, panicked >>

\* select { case dataCh <- rowMap: case <-ctx.Done(): return }; totalRows++
FetchSend ==
    /\ ~panicked
    /\ ppc = "f_send"
    /\ \/ /\ CanSend(dataCh, DataChanCap)
          /\ dataCh' = Append(dataCh, prow)
          /\ sent' = Append(sent, prow)
          /\ fetchTotalRows' = fetchTotalRows + 1
          /\ prow' = 0
          /\ ppc' = IF FetchReportDue(fetchTotalRows + 1, cfg.ProgressReportSize)
                    THEN "report" ELSE "next"
          /\ UNCHANGED << dataClosed, observed >>
       \/ /\ ctxDone
          /\ ProducerReturn
          /\ observed' = TRUE
          /\ UNCHANGED << dataCh, sent, fetchTotalRows >>
    /\ UNCHANGED besideTransfer
    /\ UNCHANGED << cfgVars, srcReads, srcGood, perr, srcFailure, consumerVars,
                    progressVars, handlerVars, sinkVars, ctxDone, clientGone,
                    panicked >>

\* select { case progressCh <- "Fetched n rows": case <-ctx.Done(): return }
FetchReport ==
    /\ ~panicked
    /\ ppc = "report"
    /\ \/ /\ ProgressSendReady
          /\ ProgressSend(ProcessingUpdate("fetch", "Fetched", fetchTotalRows))
          /\ ppc' = "next"
          /\ UNCHANGED << dataClosed, prow, observed >>
       \/ /\ ctxDone
          /\ ProducerReturn
          /\ observed' = TRUE
          /\ UNCHANGED << progressCh, progLog, panicked >>
    /\ UNCHANGED besideTransfer
    /\ UNCHANGED << cfgVars, srcReads, srcGood, fetchTotalRows, perr, srcFailure,
                    consumerVars, dataCh, sent, progressClosed, handlerVars,
                    sinkVars, ctxDone, clientGone >>

\* progressCh <- error event (no select); return
FetchErrSend ==
    /\ ~panicked
    /\ ppc = "errsend"
    /\ ProgressSendReady
    /\ ProgressSend(perr)
    /\ ProducerReturn
    /\ UNCHANGED besideTransfer
    /\ UNCHANGED << cfgVars, srcReads, srcGood, fetchTotalRows, perr, srcFailure,
                    consumerVars, dataCh, sent, progressClosed, handlerVars,
                    sinkVars, ctxDone, clientGone, observed >>

\* ------------------------------------------ ReadData: the reading goroutine
\* A reading goroutine that ends the stream at the first row it cannot use.
ReaderReadStopsAtSkip ==
    /\ ~panicked
    /\ ppc = "read"
    /\ IF ctxDone
       THEN /\ ProducerReturn
            /\ observed' = TRUE
            /\ UNCHANGED << srcReads, srcGood >>
       ELSE \E outcome \in {"row", "skip", "eof"} :
              /\ outcome \in {"row", "skip"} => srcReads < MaxRows
              /\ IF outcome = "eof"
                 THEN /\ ProducerReturn
                      /\ UNCHANGED << srcReads, srcGood >>
                 ELSE /\ srcReads' = srcReads + 1
                      /\ IF outcome = "row"
                         THEN /\ srcGood' = srcGood + 1
                              /\ prow' = srcGood + 1
                              /\ ppc' = "r_send"
                              /\ UNCHANGED dataClosed
                         ELSE /\ ProducerReturn
                              /\ UNCHANGED srcGood
              /\ UNCHANGED observed
    /\ UNCHANGED besideTransfer
    /\ UNCHANGED << cfgVars, fetchTotalRows, perr, srcFailure, consumerVars, dataCh,
                    sent, progressVars, handlerVars, sinkVars, ctxDone, clientGone,
                    panicked >>

\* select { case <-ctx.Done(): return; default: }; record, err := reader.Read()
\* EOF ends the loop; an error or a wrong field count skips the row.
ReaderRead ==
    /\ ~panicked
    /\ ppc = "read"
    /\ IF ctxDone
       THEN /\ ProducerReturn
            /\ observed' = TRUE
            /\ UNCHANGED << srcReads, srcGood >>
       ELSE \E outcome \in {"row", "skip", "eof"} :
              /\ outcome \in {"row", "skip"} => srcReads < MaxRows
              /\ IF outcome = "eof"
                 THEN /\ ProducerReturn
                      /\ UNCHANGED << srcReads, srcGood >>
                 ELSE /\ srcReads' = srcReads + 1
                      /\ IF outcome = "row"
                         THEN /\ srcGood' = srcGood + 1
                              /\ prow' = srcGood + 1
                              /\ ppc' = "r_send"
                         ELSE UNCHANGED << srcGood, prow, ppc >>
                      /\ UNCHANGED dataClosed
              /\ UNCHANGED observed
    /\ UNCHANGED besideTransfer
    /\ UNCHANGED << cfgVars, fetchTotalRows, perr, srcFailure, consumerVars, dataCh,
                    sent, progressVars, handlerVars, sinkVars, ctxDone, clientGone,
                    panicked >>

\* select { case out <- row: case <-ctx.Done(): return }
ReaderSend ==
    /\ ~panicked
    /\ ppc = "r_send"
    /\ \/ /\ CanSend(dataCh, DataChanCap)
          /\ dataCh' = Append(dataCh, prow)
          /\ sent' = Append(sent, prow)
          /\ prow' = 0
          /\ ppc' = "read"
          /\ UNCHANGED << dataClosed, observed >>
       \/ /\ ctxDone
          /\ ProducerReturn
          /\ observed' = TRUE
          /\ UNCHANGED << dataCh, sent >>
    /\ UNCHANGED besideTransfer
    /\ UNCHANGED << cfgVars, srcReads, srcGood, fetchTotalRows, perr, srcFailure,
                    consumerVars, progressVars, handlerVars, sinkVars, ctxDone,
                    clientGone, panicked >>


\* ------------------------------------------------------------- WriteData
\* MkdirAll, Create, csv writer, header, Flush
WriteOpen ==
    /\ ~panicked
    /\ opc = "w_open"
    /\ \E ok \in BOOLEAN :
         IF ok
         THEN /\ opc' = "w_range"
              /\ UNCHANGED result
         ELSE IngestReturn(0, "failed to create file")
    /\ UNCHANGED besideTransfer
    /\ UNCHANGED << cfgVars, producerVars, crow, batch, totalRows, lastReportedCount,
                    submitFailedAt, submitted, dataVars, progressVars, handlerVars, sinkVars,
                    ctxDone, clientGone, observed, panicked >>

\* for row := range data { select { case <-ctx.Done(): return ...; default: } ...
\* and, after the loop, the final Flush.
WriteRange ==
    /\ ~panicked
    /\ opc = "w_range"
    /\ \/ /\ CanRecv(dataCh)
          /\ dataCh' = Tail(dataCh)
          /\ IF ctxDone
             THEN /\ IngestReturn(totalRows, "context canceled")
                  /\ observed' = TRUE
                  /\ UNCHANGED crow
             ELSE /\ crow' = ChanHead(dataCh)
                  /\ opc' = "w_write"
                  /\ UNCHANGED << result, observed >>
       \/ /\ RangeEnds(dataCh, dataClosed)
          /\ \E ok \in BOOLEAN :
               IngestReturn(totalRows, IF ok THEN NoError ELSE "writer error")
          /\ UNCHANGED << dataCh, crow, observed >>
    /\ UNCHANGED besideTransfer
    /\ UNCHANGED << cfgVars, producerVars, batch, totalRows, lastReportedCount,
                    submitFailedAt, submitted, dataClosed, sent, progressVars, handlerVars,
                    sinkVars, ctxDone, clientGone, panicked >>

\* writer.Write(record); totalRows++; the periodic Flush; is a report due?
WriteRecord ==
    /\ ~panicked
    /\ opc = "w_write"
    /\ \E ok \in BOOLEAN :
         IF ~ok
         THEN /\ IngestReturn(totalRows, "failed to write record")
              /\ UNCHANGED << totalRows, sinkVars >>
         ELSE /\ Deliver(<< crow >>)
              /\ totalRows' = totalRows + 1
              /\ \E flushed \in BOOLEAN :
                   IF FlushDue(totalRows + 1) /\ ~flushed
                   THEN IngestReturn(totalRows + 1, "writer error")
                   ELSE /\ opc' = IF ReportDue(totalRows + 1, lastReportedCount,
                                               cfg.ProgressReportSize)
                                  THEN "w_report" ELSE "w_range"
                        /\ UNCHANGED result
    /\ crow' = 0
    /\ UNCHANGED besideTransfer
    /\ UNCHANGED << cfgVars, producerVars, batch, lastReportedCount, submitFailedAt, submitted,
                    dataVars, progressVars, handlerVars, ctxDone, clientGone,
                    observed, panicked >>

\* select { case progressCh <- "Written n rows": lastReportedCount = totalRows
\*          case <-ctx.Done(): return totalRows, ctx.Err() }
WriteReport ==
    /\ ~panicked
    /\ opc = "w_report"
    /\ \/ /\ ProgressSendReady
          /\ ProgressSend(ProcessingUpdate("writer", "Written", totalRows))
          /\ lastReportedCount' = totalRows
          /\ opc' = "w_range"
          /\ UNCHANGED << result, observed >>
       \/ /\ ctxDone
          /\ IngestReturn(totalRows, "context canceled")
          /\ observed' = TRUE
          /\ UNCHANGED << lastReportedCount, progressCh, progLog, panicked >>
    /\ UNCHANGED besideTransfer
    /\ UNCHANGED << cfgVars, producerVars, crow, batch, totalRows, submitFailedAt, submitted,
                    dataVars, progressClosed, handlerVars, sinkVars, ctxDone,
                    clientGone >>

\* --------------------------------------------- IngestFlatFileToClickHouse
\* A transfer that notes the failure of CreateTable and goes on to the file.
CreateTableThenOpenAnyway ==
    /\ ~panicked
    /\ opc = "create"
    /\ \E ok \in BOOLEAN :
         /\ opc' = "open"
         /\ result' = IF ok THEN result
                      ELSE [count |-> 0, err |-> "failed to create table"]
    /\ UNCHANGED besideTransfer
    /\ UNCHANGED << cfgVars, producerVars, crow, batch, totalRows, lastReportedCount,
                    submitFailedAt, submitted, dataVars, progressVars, handlerVars, sinkVars,
                    ctxDone, clientGone, observed, panicked >>

\* s.clickhouseService.CreateTable(ctx, tableName, columns)
CreateTable ==
    /\ ~panicked
    /\ opc = "create"
    /\ \E ok \in BOOLEAN :
         IF ok
         THEN /\ opc' = "open"
              /\ UNCHANGED result
         ELSE IngestReturn(0, "failed to create table")
    /\ UNCHANGED besideTransfer
    /\ UNCHANGED << cfgVars, producerVars, crow, batch, totalRows, lastReportedCount,
                    submitFailedAt, submitted, dataVars, progressVars, handlerVars, sinkVars,
                    ctxDone, clientGone, observed, panicked >>

\* ReadData up to `go func()`: open the file, read the header, start the
\* reading goroutine.
ReadDataOpen ==
    /\ ~panicked
    /\ opc = "open"
    /\ \E ok \in BOOLEAN :
         IF ok
         THEN /\ opc' = "i_range"
              /\ ppc' = "read"
              /\ UNCHANGED result
         ELSE /\ IngestReturn(0, "failed to read data")
              /\ UNCHANGED ppc
    /\ UNCHANGED besideTransfer
    /\ UNCHANGED << cfgVars, srcReads, srcGood, fetchTotalRows, prow, perr,
                    srcFailure, crow, batch, totalRows, lastReportedCount,
                    submitFailedAt, submitted, dataVars, progressVars, handlerVars, sinkVars,
                    ctxDone, clientGone, observed, panicked >>

\* ------------------------------------------------------------ InsertData
\* for rowData := range data { batch = append(batch, rowData); full? }
\* and, after the loop, `if len(batch) > 0`.
InsertRange ==
    /\ ~panicked
    /\ opc = "i_range"
    /\ \/ /\ CanRecv(dataCh)
          /\ dataCh' = Tail(dataCh)
          /\ batch' = AppendBatch(batch, ChanHead(dataCh))
          /\ opc' = IF BatchFull(AppendBatch(batch, ChanHead(dataCh)), cfg.BatchSize)
                    THEN "i_submit" ELSE "i_range"
          /\ UNCHANGED result
       \/ /\ RangeEnds(dataCh, dataClosed)
          /\ IF FinalBatchPending(batch)
             THEN /\ opc' = "i_final"
                  /\ UNCHANGED result
             ELSE IngestReturn(totalRows, NoError)
          /\ UNCHANGED << dataCh, batch >>
    /\ UNCHANGED besideTransfer
    /\ UNCHANGED << cfgVars, producerVars, crow, totalRows, lastReportedCount,
                    submitFailedAt, submitted, dataClosed, sent, progressVars, handlerVars,
                    sinkVars, ctxDone, clientGone, observed, panicked >>

\* conn.AsyncInsert(ctx, query, batch, false) of a full batch;
\* totalRows += len(batch); batch = make(...); is a report due?
InsertSubmit ==
    /\ ~panicked
    /\ opc = "i_submit"
    /\ \E ok \in BOOLEAN :
         IF ok
         THEN /\ Deliver(batch)
              /\ totalRows' = totalRows + Len(batch)
              /\ batch' = << >>
              /\ opc' = IF ReportDue(totalRows + Len(batch), lastReportedCount,
                                     cfg.ProgressReportSize)
                        THEN "i_report" ELSE "i_range"
              /\ UNCHANGED << result, submitFailedAt >>
         ELSE /\ IngestReturn(FailedSubmitCount(totalRows, batch),
                              "failed to insert data: failed to insert batch")
              /\ submitFailedAt' = FailedSubmitCount(totalRows, batch)
              /\ UNCHANGED << totalRows, batch, sinkVars >>
    /\ submitted' = Append(submitted, Len(batch))
    /\ UNCHANGED besideTransfer
    /\ UNCHANGED << cfgVars, producerVars, crow, lastReportedCount, dataVars,
                    progressVars, handlerVars, ctxDone, clientGone, observed,
                    panicked >>

\* select { case progressCh <- "Inserted n rows": lastReportedCount = totalRows
\*          case <-ctx.Done(): return totalRows, ctx.Err() }
InsertReport ==
    /\ ~panicked
    /\ opc = "i_report"
    /\ \/ /\ ProgressSendReady
          /\ ProgressSend(ProcessingUpdate("inserter", "Inserted", totalRows))
          /\ lastReportedCount' = totalRows
          /\ opc' = "i_range"
          /\ UNCHANGED << result, observed >>
       \/ /\ ctxDone
          /\ IngestReturn(totalRows, "failed to insert data: context canceled")
          /\ observed' = TRUE
          /\ UNCHANGED << lastReportedCount, progressCh, progLog, panicked >>
    /\ UNCHANGED besideTransfer
    /\ UNCHANGED << cfgVars, producerVars, crow, batch, totalRows, submitFailedAt, submitted,
                    dataVars, progressClosed, handlerVars, sinkVars, ctxDone,
                    clientGone >>

\* The trailing batch: conn.AsyncInsert(ctx, query, batch, false);
\* totalRows += len(batch); return totalRows, nil
InsertFinal ==
    /\ ~panicked
    /\ opc = "i_final"
    /\ \E ok \in BOOLEAN :
         IF ok
         THEN /\ Deliver(batch)
              /\ totalRows' = totalRows + Len(batch)
              /\ IngestReturn(totalRows + Len(batch), NoError)
              /\ UNCHANGED submitFailedAt
         ELSE /\ IngestReturn(FailedSubmitCount(totalRows, batch),
                              "failed to insert data: failed to insert final batch")
              /\ submitFailedAt' = FailedSubmitCount(totalRows, batch)
              /\ UNCHANGED << totalRows, sinkVars >>
    /\ submitted' = Append(submitted, Len(batch))
    /\ UNCHANGED besideTransfer
    /\ UNCHANGED << cfgVars, producerVars, crow, batch, lastReportedCount, dataVars,
                    progressVars, handlerVars, ctxDone, clientGone, observed,
                    panicked >>

\* -------------------------------------------------------- specifications
HandlerNext == HandlerStream \/ HandlerEnd

OrchestratorNext ==
    \/ OrchestratorStart \/ OrchestratorTerminal \/ OrchestratorClose
    \/ WriteOpen \/ WriteRange \/ WriteRecord \/ WriteReport
    \/ CreateTable \/ ReadDataOpen
    \/ InsertRange \/ InsertSubmit \/ InsertReport \/ InsertFinal

ProducerNext ==
    \/ FetchQuery \/ FetchNext \/ FetchSend \/ FetchReport \/ FetchErrSend
    \/ ReaderRead \/ ReaderSend

\* Every step of the program (the client's disconnect is the environment's).
ProgramNext == HandlerNext \/ OrchestratorNext \/ ProducerNext

Next == ClientDisconnect \/ ProgramNext

Spec == Init /\ [][Next]_vars


\* ================================================= schema discovery: values
\* A field of a csv record is a sequence of characters.
Digits == {"0", "1", "2", "3", "4", "5", "6", "7", "8", "9"}

DigitValue(c) ==
    CASE c = "0" -> 0 [] c = "1" -> 1 [] c = "2" -> 2 [] c = "3" -> 3
      [] c = "4" -> 4 [] c = "5" -> 5 [] c = "6" -> 6 [] c = "7" -> 7
      [] c = "8" -> 8 [] c = "9" -> 9

IsDigits(v) == Len(v) > 0 /\ \A i \in 1..Len(v) : v[i] \in Digits

\* The value without its leading sign, if it has one.
Unsigned(v) == IF Len(v) > 0 /\ v[1] \in {"+", "-"} THEN Tail(v) ELSE v

\* strconv.ParseInt(value, 10, 64) succeeds: an optional sign and one or more
\* decimal digits (the values explored are far shorter than the 64-bit range).
ParsesAsInt(v) == IsDigits(Unsigned(v))

\* A decimal mantissa: digits with at most one point and at least one digit.
IsMantissa(v) ==
    /\ \A i \in 1..Len(v) : v[i] \in Digits \cup {"."}
    /\ \E i \in 1..Len(v) : v[i] \in Digits
    /\ Cardinality({i \in 1..Len(v) : v[i] = "."}) <= 1

\* Spellings of the special values ParseFloat accepts (it ignores case).
SpecialFloats ==
    { << "N", "a", "N" >>, << "n", "a", "n" >>, << "I", "n", "f" >>,
      << "i", "n", "f" >> }

\* strconv.ParseFloat(value, 64) succeeds: an optional sign, a decimal
\* mantissa and an optional decimal exponent, or a special value.
ParsesAsFloat(v) ==
    LET u == Unsigned(v)
        es == {i \in 1..Len(u) : u[i] \in {"e", "E"}}
    IN  \/ u \in SpecialFloats
        \/ es = {} /\ IsMantissa(u)
        \/ \E i \in es : /\ IsMantissa(SubSeq(u, 1, i - 1))
                         /\ ParsesAsInt(SubSeq(u, i + 1, Len(u)))

\* The number two digit characters spell.
TwoDigits(v) == 10 * DigitValue(v[1]) + DigitValue(v[2])

\* time.Parse(layout, value) succeeds.  A layout is a sequence of fields:
\* "YYYY" (2006), "MM" (01), "DD" (02), "hh" (15), "mm" (04), "ss" (05), "Z"
\* (Z07:00) or a literal character.  The day is checked against 1..31, not
\* against the length of its month.
RECURSIVE MatchesLayout(_, _)
MatchesLayout(layout, v) ==
    IF layout = << >> THEN v = << >>
    ELSE LET f == Head(layout) IN
         IF f = "YYYY"
         THEN /\ Len(v) >= 4
              /\ IsDigits(SubSeq(v, 1, 4))
              /\ MatchesLayout(Tail(layout), SubSeq(v, 5, Len(v)))
         ELSE IF f \in {"MM", "DD", "hh", "mm", "ss"}
         THEN /\ Len(v) >= 2
              /\ IsDigits(SubSeq(v, 1, 2))
              /\ TwoDigits(v) \in (CASE f = "MM" -> 1..12 [] f = "DD" -> 1..31
                                     [] f = "hh" -> 0..23 [] OTHER -> 0..59)
              /\ MatchesLayout(Tail(layout), SubSeq(v, 3, Len(v)))
         ELSE IF f = "Z"
         THEN \/ v = << "Z" >>
              \/ /\ Len(v) = 6
                 /\ v[1] \in {"+", "-"}
                 /\ MatchesLayout(<< "hh", ":", "mm" >>, Tail(v))
         ELSE /\ Len(v) >= 1
              /\ v[1] = f
              /\ MatchesLayout(Tail(layout), Tail(v))

\* inferType's dateFormats, in its order.
dateFormats ==
    << << "YYYY", "-", "MM", "-", "DD" >>,
       << "YYYY", "/", "MM", "/", "DD" >>,
       << "MM", "/", "DD", "/", "YYYY" >>,
       << "MM", "-", "DD", "-", "YYYY" >>,
       << "YYYY", "-", "MM", "-", "DD", " ", "hh", ":", "mm", ":", "ss" >>,
       << "YYYY", "/", "MM", "/", "DD", " ", "hh", ":", "mm", ":", "ss" >>,
       << "YYYY", "-", "MM", "-", "DD", "T", "hh", ":", "mm", ":", "ss", "Z" >> >>

ParsesAsDate(v) == \E k \in DOMAIN dateFormats : MatchesLayout(dateFormats[k], v)

\* Slip: the float rule is tried before the integer rule.
inferTypeFloatFirst(value) ==
    IF value = << >> THEN "Nullable(String)"
    ELSE IF ParsesAsFloat(value) THEN "Float64"
    ELSE IF ParsesAsInt(value) THEN "Int64"
    ELSE IF ParsesAsDate(value) THEN "DateTime"
    ELSE "String"

\* FlatFileServiceImpl.inferType
inferType(value) ==
    IF value = << >> THEN "Nullable(String)"
    ELSE IF ParsesAsInt(value) THEN "Int64"
    ELSE IF ParsesAsFloat(value) THEN "Float64"
    ELSE IF ParsesAsDate(value) THEN "DateTime"
    ELSE "String"

\* The field values explored: "", "42", "3.5", "2024-01-02", "abc", "true".
Values ==
    { << >>,
      << "4", "2" >>,
      << "3", ".", "5" >>,
      << "2", "0", "2", "4", "-", "0", "1", "-", "0", "2" >>,
      << "a", "b", "c" >>,
      << "t", "r", "u", "e" >> }

\* ========================================= schema discovery: getDominantType
\* counts[t] after `for _, t := range types { counts[t]++ }`
countOf(ts, t) == Cardinality({i \in 1..Len(ts) : ts[i] = t})

\* The keys of the counts map.
countKeys(ts) == {ts[i] : i \in 1..Len(ts)}

\* `for t, count := range counts` visits the keys of a Go map in an order the
\* language leaves unspecified: any enumeration of the keys.
IterationOrders(keys) ==
    {o \in [1..Cardinality(keys) -> keys] :
        \A i, j \in 1..Cardinality(keys) : i # j => o[i] # o[j]}

\* Slip: only the first key visited can become the dominant type.
ExceedsFirstOnly(count, maxCount) == count > maxCount /\ maxCount = 0

\* if count > maxCount
Exceeds(count, maxCount) == count > maxCount

\* The counting loop: maxCount, dominantType := 0, "String"; for each key in
\* the order visited, a strictly higher count takes over.
RECURSIVE ScanCounts(_, _, _, _)
ScanCounts(order, ts, maxCount, dom) ==
    IF order = << >> THEN dom
    ELSE IF Exceeds(countOf(ts, Head(order)), maxCount)
    THEN ScanCounts(Tail(order), ts, countOf(ts, Head(order)), Head(order))
    ELSE ScanCounts(Tail(order), ts, maxCount, dom)

\* Slip: Float64 is preferred only when it is at least as frequent as Int64.
BothNumericFloatAhead(ts) ==
    /\ countOf(ts, "Int64") > 0
    /\ countOf(ts, "Float64") >= countOf(ts, "Int64")

\* if counts["Int64"] > 0 && counts["Float64"] > 0
BothNumeric(ts) == countOf(ts, "Int64") > 0 /\ countOf(ts, "Float64") > 0

\* "Nullable(" + dominantType + ")"
Nullable(t) == "Nullable(" \o t \o ")"

\* Slip: the empty sample is given the empty-value classification.
getDominantTypeEmptyNullable(ts, order) ==
    IF Len(ts) = 0 THEN "Nullable(String)"
    ELSE LET dom == ScanCounts(order, ts, 0, "String") IN
         IF BothNumeric(ts) THEN "Float64"
         ELSE IF countOf(ts, "Nullable(String)") > 0 /\ dom # "String"
         THEN Nullable(dom)
         ELSE dom

\* FlatFileServiceImpl.getDominantType, the map visited in the given order.
getDominantType(ts, order) ==
    IF Len(ts) = 0 THEN "String"
    ELSE LET dom == ScanCounts(order, ts, 0, "String") IN
         IF BothNumeric(ts) THEN "Float64"
         ELSE IF countOf(ts, "Nullable(String)") > 0 /\ dom # "String"
         THEN Nullable(dom)
         ELSE dom

\* ================================================ schema discovery: steps
\* DiscoverSchema has read the header and the sampled rows of a file; of
\* these the model follows one column.  No transfer is under way.
SchemaInit ==
    /\ TransferInit
    /\ ReadIdle
    /\ AdapterIdle
    /\ RoundTripIdle
    /\ CreateIdle
    /\ QueryIdle
    /\ cfg = [BatchSize |-> 1, ProgressReportSize |-> 1]
    /\ dir = "invalid"
    /\ DiscoverIdle
    /\ JoinIdle
    /\ samples \in UNION {[1..n -> Values] : n \in 0..MaxSamples}
    /\ types = << >>
    /\ dominantType = ""
    /\ columnType = ""
    /\ spc = "classify"

\* valueType := s.inferType(value); types[j] = append(types[j], valueType)
ClassifyValue ==
    /\ spc = "classify"
    /\ Len(types) < Len(samples)
    /\ types' = Append(types, inferType(samples[Len(types) + 1]))
    /\ UNCHANGED << samples, dominantType, columnType, spc >>
    /\ UNCHANGED besideSchema

\* The sampled rows are used up: columns[i].Type = s.getDominantType(colTypes)
GetDominantType ==
    /\ spc = "classify"
    /\ Len(types) = Len(samples)
    /\ \E order \in IterationOrders(countKeys(types)) :
         /\ dominantType' = ScanCounts(order, types, 0, "String")
         /\ columnType' = getDominantType(types, order)
    /\ spc' = "done"
    /\ UNCHANGED << samples, types >>
    /\ UNCHANGED besideSchema

SchemaNext == ClassifyValue \/ GetDominantType

SchemaSpec == SchemaInit /\ [][SchemaNext]_vars


\* ============================================ schema discovery: the rows
\* Header names, by position.
HeaderNames == << "id", "name", "age", "city" >>

\* The field values a well-formed row is built from: "42" and "abc".
CellValues == { << "4", "2" >>, << "a", "b", "c" >> }

\* What reader.Read() returns for a data row of a file whose header has h
\* fields: a record of h fields and no error, or an error: a parse failure
\* (no record), or csv.ErrFieldCount with a record of h + 1 fields.
WellFormedRows(h) == {[err |-> FALSE, record |-> r] : r \in [1..h -> CellValues]}

MalformedRows(h) ==
    { [err |-> TRUE, record |-> << >>],
      [err |-> TRUE, record |-> [j \in 1..(h + 1) |-> << "4", "2" >>]] }

\* Slip: the columns are created in reverse header order.
NewColumnsReversed(hd) ==
    [i \in 1..Len(hd) |-> [Name |-> hd[Len(hd) + 1 - i], Type |-> ""]]

\* columns[i] = model.Column{Name: name, Type: ""} for each header field
NewColumns(hd) == [i \in 1..Len(hd) |-> [Name |-> hd[i], Type |-> ""]]

\* `continue` in `for i := 0; i < sampleSize; i++`: the post statement runs,
\* the skipped row has used up an iteration.
SkippedRowCounts(i) == i + 1

\* What getDominantType can return for a column, over the orders in which
\* its counts map can be visited.
PossibleTypes(ts) ==
    {getDominantType(ts, order) : order \in IterationOrders(countKeys(ts))}

\* DiscoverSchema has opened the file, read its header and created the
\* columns and the per-column classification lists.  No transfer is under way.
DiscoverInit ==
    /\ TransferInit
    /\ ReadIdle
    /\ AdapterIdle
    /\ RoundTripIdle
    /\ CreateIdle
    /\ QueryIdle
    /\ cfg = [BatchSize |-> 1, ProgressReportSize |-> 1]
    /\ dir = "invalid"
    /\ SchemaIdle
    /\ JoinIdle
    /\ \E h \in 1..MaxHeader :
         /\ header = SubSeq(HeaderNames, 1, h)
         /\ fileRows \in UNION {[1..n -> WellFormedRows(h) \cup MalformedRows(h)] :
                                   n \in 0..MaxFileRows}
         /\ colTypes = [j \in 1..h |-> << >>]
    /\ di = 0
    /\ classified = << >>
    /\ columns = NewColumns(header)
    /\ derr = NoError
    /\ dpc = "sample"

\* One iteration of the sampling loop: the ctx check, reader.Read(), EOF ends
\* the loop, a read error or a wrong field count skips the row, otherwise
\* every field is classified.  The reader has handed out di rows so far.
DiscoverSample ==
    /\ dpc = "sample"
    /\ IF di >= SampleSize
       THEN /\ dpc' = "reduce"
            /\ UNCHANGED << di, colTypes, classified, columns, derr >>
       ELSE \E cancelled \in BOOLEAN :
              IF cancelled
              THEN /\ columns' = << >>
                   /\ derr' = "context canceled"
                   /\ dpc' = "returned"
                   /\ UNCHANGED << di, colTypes, classified >>
              ELSE IF di >= Len(fileRows)
              THEN /\ dpc' = "reduce"
                   /\ UNCHANGED << di, colTypes, classified, columns, derr >>
              ELSE IF fileRows[di + 1].err
                      \/ Len(fileRows[di + 1].record) # Len(header)
              THEN /\ di' = SkippedRowCounts(di)
                   /\ UNCHANGED << colTypes, classified, columns, derr, dpc >>
              ELSE /\ di' = di + 1
                   /\ colTypes' = [j \in 1..Len(header) |->
                          Append(colTypes[j], inferType(fileRows[di + 1].record[j]))]
                   /\ classified' = Append(classified, di + 1)
                   /\ UNCHANGED << columns, derr, dpc >>
    /\ UNCHANGED << header, fileRows >>
    /\ UNCHANGED besideDiscover

\* for i, colTypes := range types { columns[i].Type = s.getDominantType(colTypes) }
\* return columns, nil
DiscoverReduce ==
    /\ dpc = "reduce"
    /\ \E tys \in [1..Len(header) ->
                     UNION {PossibleTypes(colTypes[j]) : j \in 1..Len(header)}] :
         /\ \A j \in 1..Len(header) : tys[j] \in PossibleTypes(colTypes[j])
         /\ columns' = [j \in 1..Len(header) |->
                           [Name |-> columns[j].Name, Type |-> tys[j]]]
    /\ dpc' = "returned"
    /\ UNCHANGED << header, fileRows, di, colTypes, classified, derr >>
    /\ UNCHANGED besideDiscover

DiscoverNext == DiscoverSample \/ DiscoverReduce

DiscoverSpec == DiscoverInit /\ [][DiscoverNext]_vars


\* ======================================================= join preview
\* Table names, by position in the request.
TableNames == << "t1", "t2", "t3", "t4" >>

\* What a request can say about a table besides its name.
TableOptions ==
    [SelectedColumns : {<< >>, << "a" >>, << "a", "b" >>},
     JoinType        : {"", "LEFT JOIN"},
     JoinCondition   : {"", "x = y"}]

\* The table lists of n tables.
TableLists(n) ==
    {[i \in 1..n |-> [Name            |-> TableNames[i],
                      SelectedColumns |-> o[i].SelectedColumns,
                      JoinType        |-> o[i].JoinType,
                      JoinCondition   |-> o[i].JoinCondition]] :
        o \in [1..n -> TableOptions]}

\* strings.Join(elems, sep)
RECURSIVE StringsJoin(_, _)
StringsJoin(elems, sep) ==
    IF elems = << >> THEN ""
    ELSE IF Len(elems) = 1 THEN elems[1]
    ELSE elems[1] \o sep \o StringsJoin(Tail(elems), sep)

\* Slip: the column is not prefixed with its table.
QualifiedNameBare(table, col) == col

\* fmt.Sprintf("%s.%s", table.Name, col)
QualifiedName(table, col) == table \o "." \o col

\* allColumns: for every table in order, its selected columns in order.
RECURSIVE AllColumns(_)
AllColumns(tables) ==
    IF tables = << >> THEN << >>
    ELSE [k \in 1..Len(tables[1].SelectedColumns) |->
             QualifiedName(tables[1].Name, tables[1].SelectedColumns[k])]
         \o AllColumns(Tail(tables))

\* The join clauses of tables i..Len(tables), or the error of the first of
\* them that has no join condition.
RECURSIVE JoinClauses(_, _)
JoinClauses(tables, i) ==
    IF i > Len(tables) THEN [query |-> "", err |-> NoError]
    ELSE IF tables[i].JoinCondition = ""
    THEN [query |-> "", err |-> "join condition is required for table " \o tables[i].Name]
    ELSE LET rest == JoinClauses(tables, i + 1)
             joinType == IF tables[i].JoinType # "" THEN tables[i].JoinType
                         ELSE "INNER JOIN"
         IN  IF rest.err # NoError THEN rest
             ELSE [query |-> " " \o joinType \o " " \o tables[i].Name \o " ON "
                               \o tables[i].JoinCondition \o rest.query,
                   err |-> NoError]

\* Slip: a single table is accepted.
TooFewTablesOffByOne(tables) == Len(tables) < 1

\* if len(params.Tables) < 2
TooFewTables(tables) == Len(tables) < 2

\* ClickHouseServiceImpl.BuildJoinQuery
BuildJoinQuery(p) ==
    IF TooFewTables(p.Tables)
    THEN [query |-> "", err |-> "at least two tables are required for a join"]
    ELSE IF AllColumns(p.Tables) = << >>
    THEN [query |-> "", err |-> "no columns selected"]
    ELSE LET joins == JoinClauses(p.Tables, 2) IN
         IF joins.err # NoError THEN joins
         ELSE [query |-> "SELECT " \o StringsJoin(AllColumns(p.Tables), ", ")
                           \o " FROM " \o p.Tables[1].Name \o joins.query
                           \o (IF p.WhereClause # "" THEN " WHERE " \o p.WhereClause
                               ELSE ""),
               err |-> NoError]

\* Slip: the handler goes on to the preview although the build failed.
AfterBuildAlwaysExecute(err) == "execute"

\* BuildJoinPreview: `if err != nil { ...; return }` after BuildJoinQuery.
AfterBuild(err) == IF err # NoError THEN "responded" ELSE "execute"

\* A join-preview request has arrived; the store adapter is connected or not.
JoinInit ==
    /\ TransferInit
    /\ ReadIdle
    /\ AdapterIdle
    /\ RoundTripIdle
    /\ CreateIdle
    /\ QueryIdle
    /\ cfg = [BatchSize |-> 1, ProgressReportSize |-> 1]
    /\ dir = "invalid"
    /\ SchemaIdle
    /\ DiscoverIdle
    /\ joinParams \in [Tables      : UNION {TableLists(n) : n \in 0..MaxTables},
                       WhereClause : {"", "z > 1"}]
    /\ connOpen \in BOOLEAN
    /\ joinQuery = ""
    /\ joinErr = NoError
    /\ storeQueries = << >>
    /\ response = ""
    /\ jpc = "build"

\* query, err := h.clickhouseService.BuildJoinQuery(params); on error the
\* handler responds 500 and returns.
JoinPreviewBuild ==
    /\ jpc = "build"
    /\ joinQuery' = BuildJoinQuery(joinParams).query
    /\ joinErr' = BuildJoinQuery(joinParams).err
    /\ jpc' = AfterBuild(BuildJoinQuery(joinParams).err)
    /\ response' = IF AfterBuild(BuildJoinQuery(joinParams).err) = "responded"
                   THEN "Failed to build join query" ELSE response
    /\ UNCHANGED << joinParams, connOpen, storeQueries >>
    /\ UNCHANGED besideJoin

\* data, err := h.clickhouseService.ExecuteJoinPreview(ctx, query, limit):
\* without a connection it fails at once; otherwise the query, with its
\* LIMIT, goes to the store, which answers or fails.
JoinPreviewExecute ==
    /\ jpc = "execute"
    /\ IF ~connOpen
       THEN /\ response' = "Failed to execute join preview"
            /\ UNCHANGED storeQueries
       ELSE /\ storeQueries' = Append(storeQueries,
                   joinQuery \o " LIMIT " \o ToString(MaxPreviewRows))
            /\ \E ok \in BOOLEAN :
                 response' = IF ok THEN "success"
                             ELSE "Failed to execute join preview"
    /\ jpc' = "responded"
    /\ UNCHANGED << joinParams, connOpen, joinQuery, joinErr >>
    /\ UNCHANGED besideJoin

JoinNext == JoinPreviewBuild \/ JoinPreviewExecute

JoinSpec == JoinInit /\ [][JoinNext]_vars


\* ================================================== store to file: the query
\* The most columns a transfer request names.
MaxColumns == 2

\* The Column lists of a request, of up to n columns, in every order.
ColumnLists(n) ==
    UNION {[1..k -> [Name : {"a", "b", "c"}, Type : {"String"}]] : k \in 0..n}

\* columnNames[i] = col.Name
columnNames(cols) == [i \in 1..Len(cols) |-> cols[i].Name]

\* A separator that leaves the blank out.
SelectSeparatorBare == ","

\* The separator of the select list.
SelectSeparator == ", "

\* fmt.Sprintf("SELECT %s FROM %s", strings.Join(columnNames, ", "), tableName)
SelectQuery(cols, tableName) ==
    "SELECT " \o StringsJoin(columnNames(cols), SelectSeparator)
              \o " FROM " \o tableName

\* if query == "" { query = ... }: the query the transfer goes on with.
QueryOrSelect(q, cols, tableName) ==
    IF q = "" THEN SelectQuery(cols, tableName) ELSE q

\* A store-to-file transfer has been called; the store adapter is connected
\* or not.
QueryInit ==
    /\ TransferInit
    /\ ReadIdle
    /\ AdapterIdle
    /\ RoundTripIdle
    /\ CreateIdle
    /\ cfg = [BatchSize |-> 1, ProgressReportSize |-> 1]
    /\ dir = "invalid"
    /\ SchemaIdle
    /\ DiscoverIdle
    /\ JoinIdle
    /\ ingestParams \in [TableName : {"t", "u"},
                         Columns   : ColumnLists(MaxColumns),
                         Query     : {"", "SELECT b FROM u WHERE b > 1",
                                      "SELECT a FROM t"}]
    /\ sourceOpen \in BOOLEAN
    /\ query = ingestParams.Query
    /\ executed = << >>
    /\ qpc = "build"

\* Build query if not provided.
TransferBuildQuery ==
    /\ qpc = "build"
    /\ query' = QueryOrSelect(query, ingestParams.Columns, ingestParams.TableName)
    /\ qpc' = "execute"
    /\ UNCHANGED << ingestParams, sourceOpen, executed >>
    /\ UNCHANGED besideQuery

\* rows, err := s.clickhouseService.conn.Query(ctx, query) in the fetching
\* goroutine: a call on the nil connection panics; otherwise the query goes
\* to the store, which answers or fails.
TransferExecuteQuery ==
    /\ qpc = "execute"
    /\ IF ~sourceOpen
       THEN /\ qpc' = "panicked"
            /\ UNCHANGED executed
       ELSE /\ executed' = Append(executed, query)
            /\ qpc' \in {"fetching", "failed"}
    /\ UNCHANGED << ingestParams, sourceOpen, query >>
    /\ UNCHANGED besideQuery

QueryNext == TransferBuildQuery \/ TransferExecuteQuery

QuerySpec == QueryInit /\ [][QueryNext]_vars


\* ============================================================ CreateTable
\* columnDefs[i] = fmt.Sprintf("%s %s", col.Name, col.Type)
columnDefs(cols) == [i \in 1..Len(cols) |-> cols[i].Name \o " " \o cols[i].Type]

\* The statement without its IF NOT EXISTS.
CreateTableQueryPlain(tableName, cols) ==
    [Text        |-> "CREATE TABLE " \o tableName \o " ("
                        \o StringsJoin(columnDefs(cols), ", ")
                        \o ") ENGINE = MergeTree() ORDER BY tuple()",
     IfNotExists |-> FALSE,
     Name        |-> tableName,
     Defs        |-> columnDefs(cols)]

\* The statement CreateTable builds: its text, and what the text says.
CreateTableQuery(tableName, cols) ==
    [Text        |-> "CREATE TABLE IF NOT EXISTS " \o tableName \o " ("
                        \o StringsJoin(columnDefs(cols), ", ")
                        \o ") ENGINE = MergeTree() ORDER BY tuple()",
     IfNotExists |-> TRUE,
     Name        |-> tableName,
     Defs        |-> columnDefs(cols)]

\* The store executing a CREATE TABLE statement: a table that exists is left
\* as it is, and is an error unless the statement says IF NOT EXISTS.
StoreExec(tables, stmt) ==
    IF \E t \in tables : t.Name = stmt.Name
    THEN [tables |-> tables,
          err    |-> IF stmt.IfNotExists THEN NoError ELSE "table already exists"]
    ELSE [tables |-> tables \cup {[Name |-> stmt.Name, Defs |-> stmt.Defs]},
          err    |-> NoError]

\* What can become of a statement handed to conn.Exec: the store executes it
\* and answers; the statement never reaches the store; the store executes it
\* and the answer is lost (the context ends first).
ExecOutcomes == {"answered", "failed", "lost"}

\* CreateTable is about to be called twice with the same arguments; the store
\* adapter is connected or not; the table exists already or not.
CreateInit ==
    /\ TransferInit
    /\ ReadIdle
    /\ AdapterIdle
    /\ RoundTripIdle
    /\ cfg = [BatchSize |-> 1, ProgressReportSize |-> 1]
    /\ dir = "invalid"
    /\ SchemaIdle
    /\ DiscoverIdle
    /\ JoinIdle
    /\ QueryIdle
    /\ createArgs \in [tableName : {"t", "u"}, columns : ColumnLists(MaxColumns)]
    /\ ddlConn \in BOOLEAN
    /\ storeTables \in {{}, {[Name |-> "t", Defs |-> << "z String" >>]}}
    /\ execLog = << >>
    /\ createErrs = << >>
    /\ tablesAfterFirst = {}
    /\ cpc = "first"

\* One call of CreateTable(ctx, tableName, columns).
CreateTableCall ==
    /\ cpc \in {"first", "second"}
    /\ IF ~ddlConn
       THEN /\ createErrs' = Append(createErrs, "not connected to ClickHouse")
            /\ UNCHANGED << storeTables, execLog >>
       ELSE \E outcome \in ExecOutcomes :
              LET stmt == CreateTableQuery(createArgs.tableName, createArgs.columns)
                  r    == StoreExec(storeTables, stmt)
                  err  == IF outcome = "answered" THEN r.err ELSE "exec failed"
              IN  /\ storeTables' = IF outcome = "failed" THEN storeTables
                                    ELSE r.tables
                  /\ execLog' = Append(execLog,
                                       [Text |-> stmt.Text, outcome |-> outcome])
                  /\ createErrs' = Append(createErrs,
                        IF err # NoError
                        THEN "failed to create table: " \o err
                        ELSE NoError)
    /\ tablesAfterFirst' = IF cpc = "first" THEN storeTables' ELSE tablesAfterFirst
    /\ cpc' = IF cpc = "first" THEN "second" ELSE "done"
    /\ UNCHANGED << createArgs, ddlConn >>
    /\ UNCHANGED besideCreate

CreateNext == CreateTableCall

CreateSpec == CreateInit /\ [][CreateNext]_vars


\* ====================================================== file round trip
\* The most rows written to the file.
MaxDataRows == 2

\* ----------------------------------------------------------- Go values
\* The values a row carries under a key: nil, an int, a string.
NilValue == [kind |-> "nil"]
IntValue(n) == [kind |-> "int", n |-> n]
StringValue(s) == [kind |-> "string", s |-> s]

\* The decimal digits of a natural number.
DigitChar(d) ==
    CASE d = 0 -> "0" [] d = 1 -> "1" [] d = 2 -> "2" [] d = 3 -> "3"
      [] d = 4 -> "4" [] d = 5 -> "5" [] d = 6 -> "6" [] d = 7 -> "7"
      [] d = 8 -> "8" [] d = 9 -> "9"

RECURSIVE NatText(_)
NatText(n) ==
    IF n < 10 THEN << DigitChar(n) >>
    ELSE Append(NatText(n \div 10), DigitChar(n % 10))

\* fmt.Sprintf("%v", value)
Sprint(v) ==
    CASE v.kind = "nil" -> << "<", "n", "i", "l", ">" >>
      [] v.kind = "int" -> IF v.n < 0 THEN << "-" >> \o NatText(0 - v.n)
                           ELSE NatText(v.n)
      [] v.kind = "string" -> v.s

\* The number a string of digits spells.
RECURSIVE DigitsValue(_)
DigitsValue(v) ==
    IF v = << >> THEN 0
    ELSE 10 * DigitsValue(SubSeq(v, 1, Len(v) - 1)) + DigitValue(v[Len(v)])

\* The i of `i, err := strconv.ParseInt(value, 10, 64)` when err == nil.
ParsedInt(v) ==
    IF v[1] = "-" THEN 0 - DigitsValue(Tail(v)) ELSE DigitsValue(Unsigned(v))

\* The types of the columns written and read back.
RoundTripTypes == {"String", "Int64", Nullable("Int64")}

\* convertValue(value, dataType), for the types above.
RECURSIVE convertValue(_, _)
convertValue(value, dataType) ==
    IF \E t \in RoundTripTypes : dataType = Nullable(t)
    THEN IF value = << >> THEN NilValue
         ELSE convertValue(value, CHOOSE t \in RoundTripTypes : dataType = Nullable(t))
    ELSE IF dataType = "Int64"
    THEN IF ParsesAsInt(value) THEN IntValue(ParsedInt(value)) ELSE IntValue(0)
    ELSE StringValue(value)

\* ------------------------------------------------------------ encoding/csv
Quote == "\""

\* var delim rune = ','; if delimiter != "" { delim = []rune(delimiter)[0] }
Delim(delimiter) == IF delimiter = "" THEN "," ELSE delimiter

\* Writer.fieldNeedsQuotes: never the empty field; a field holding the
\* delimiter, a quote or a line break, or starting with a blank.
fieldNeedsQuotes(field, comma) ==
    /\ field # << >>
    /\ \/ field = << "\\", "." >>
       \/ \E i \in 1..Len(field) : field[i] \in {comma, Quote, "\n", "\r"}
       \/ field[1] \in {" ", "\t"}

\* The field between quotes, each quote in it doubled.
RECURSIVE QuotedBody(_)
QuotedBody(field) ==
    IF field = << >> THEN << >>
    ELSE (IF Head(field) = Quote THEN << Quote, Quote >> ELSE << Head(field) >>)
         \o QuotedBody(Tail(field))

\* One field as Writer.Write puts it on the line.
WriteField(field, comma) ==
    IF fieldNeedsQuotes(field, comma)
    THEN << Quote >> \o QuotedBody(field) \o << Quote >>
    ELSE field

\* Writer.Write(record): the line, without its line break.
RECURSIVE WriterWrite(_, _)
WriterWrite(record, comma) ==
    IF record = << >> THEN << >>
    ELSE IF Len(record) = 1 THEN WriteField(record[1], comma)
    ELSE WriteField(record[1], comma) \o << comma >>
         \o WriterWrite(Tail(record), comma)

\* The position of the first c in line, 0 if there is none.
IndexOf(line, c) ==
    IF \E i \in 1..Len(line) : line[i] = c
    THEN CHOOSE i \in 1..Len(line) :
            line[i] = c /\ \A j \in 1..(i - 1) : line[j] # c
    ELSE 0

\* TrimLeadingSpace: the line from its first character that is no blank.
RECURSIVE TrimLeft(_)
TrimLeft(line) ==
    IF line # << >> /\ Head(line) \in {" ", "\t"} THEN TrimLeft(Tail(line))
    ELSE line

\* Reader.readRecord's parseField loop over one line, with LazyQuotes and
\* TrimLeadingSpace set: ParseFields starts a field, ParseQuoted continues a
\* quoted one whose text so far is acc.
RECURSIVE ParseFields(_, _)
RECURSIVE ParseQuoted(_, _, _)
ParseFields(line, comma) ==
    LET l == TrimLeft(line) IN
    IF l = << >> \/ l[1] # Quote
    THEN LET i == IndexOf(l, comma) IN
         IF i > 0
         THEN << SubSeq(l, 1, i - 1) >> \o ParseFields(SubSeq(l, i + 1, Len(l)), comma)
         ELSE << l >>
    ELSE ParseQuoted(Tail(l), << >>, comma)

ParseQuoted(line, acc, comma) ==
    LET i == IndexOf(line, Quote) IN
    IF i = 0 THEN << acc \o line >>
    ELSE LET field == acc \o SubSeq(line, 1, i - 1)
             rest  == SubSeq(line, i + 1, Len(line))
         IN  IF rest = << >> THEN << field >>
             ELSE IF rest[1] = Quote
             THEN ParseQuoted(Tail(rest), Append(field, Quote), comma)
             ELSE IF rest[1] = comma
             THEN << field >> \o ParseFields(Tail(rest), comma)
             ELSE ParseQuoted(rest, Append(field, Quote), comma)

\* ------------------------------------------------------------- the inputs
\* The Column lists written and read back.
RoundTripColumns ==
    { << [Name |-> << "a" >>, Type |-> "String"] >>,
      << [Name |-> << "a" >>, Type |-> "Int64"] >>,
      << [Name |-> << "a" >>, Type |-> Nullable("Int64")] >>,
      << [Name |-> << "a" >>, Type |-> "String"],
         [Name |-> << "b" >>, Type |-> "Int64"] >>,
      << [Name |-> << "b" >>, Type |-> "Int64"],
         [Name |-> << "a" >>, Type |-> "String"] >> }

\* The values of a row: null, a number, a text holding a comma.
RoundTripValues == {NilValue, IntValue(42), StringValue(<< "x", ",", "y" >>)}

\* The rows: every key is there or missing.
RoundTripRows ==
    UNION {[keys -> RoundTripValues] : keys \in SUBSET {<< "a" >>, << "b" >>}}

\* A record that formats whatever the map yields for the key.
WriteDataRecordNoKeyCheck(row, cols) ==
    [i \in 1..Len(cols) |->
        IF cols[i].Name \in DOMAIN row THEN Sprint(row[cols[i].Name])
        ELSE Sprint(NilValue)]

\* record[i] of WriteData: "" for a missing key, else the value's text.
WriteDataRecord(row, cols) ==
    [i \in 1..Len(cols) |->
        IF cols[i].Name \in DOMAIN row THEN Sprint(row[cols[i].Name]) ELSE << >>]

\* colNameToIndex[name]: the last position of name in the header, 0 if the
\* header does not have it.
colNameToIndex(hd, name) ==
    IF \E i \in 1..Len(hd) : hd[i] = name
    THEN CHOOSE i \in 1..Len(hd) :
            hd[i] = name /\ \A j \in (i + 1)..Len(hd) : hd[j] # name
    ELSE 0

\* A row that takes the file's fields by position.
ReadDataRowByPosition(record, hd, cols) ==
    [i \in 1..Len(cols) |->
        IF i > Len(record) THEN NilValue
        ELSE convertValue(record[i], cols[i].Type)]

\* row of ReadData, from one record of the file.
ReadDataRow(record, hd, cols) ==
    [i \in 1..Len(cols) |->
        LET idx == colNameToIndex(hd, cols[i].Name) IN
        IF idx = 0 \/ idx > Len(record) THEN NilValue
        ELSE convertValue(record[idx], cols[i].Type)]

\* --------------------------------------------------------------- the steps
\* WriteData is called with a Column list, a delimiter and the rows its data
\* channel will deliver; the context is not cancelled.  The file is read back
\* when WriteData has returned no error.
RoundTripInit ==
    /\ TransferInit
    /\ ReadIdle
    /\ AdapterIdle
    /\ cfg = [BatchSize |-> 1, ProgressReportSize |-> 1]
    /\ dir = "invalid"
    /\ SchemaIdle
    /\ DiscoverIdle
    /\ JoinIdle
    /\ QueryIdle
    /\ CreateIdle
    /\ rtColumns \in RoundTripColumns
    /\ rtDelimiter \in {"", ";"}
    /\ rtData \in UNION {[1..n -> RoundTripRows] : n \in 0..MaxDataRows}
    /\ rtTotalRows = 0
    /\ rtFile = << >>
    /\ rtHeader = << >>
    /\ rtLine = 0
    /\ rtOut = << >>
    /\ rtErr = NoError
    /\ rtpc = "write header"

\* The file is created and writer.Write(header); writer.Flush(), or one of
\* them fails and WriteData returns 0 and the error.
WriteDataHeader ==
    /\ rtpc = "write header"
    /\ \E ok \in BOOLEAN :
         IF ok
         THEN /\ rtFile' = << WriterWrite([i \in 1..Len(rtColumns) |->
                                               rtColumns[i].Name],
                                           Delim(rtDelimiter)) >>
              /\ rtpc' = "write rows"
         ELSE /\ rtpc' = "write failed"
              /\ UNCHANGED rtFile
    /\ UNCHANGED << rtColumns, rtDelimiter, rtData, rtTotalRows, rtHeader, rtLine,
                    rtOut, rtErr >>
    /\ UNCHANGED besideRoundTrip

\* One turn of `for row := range data`: the record is built and written, or
\* writer.Write fails and WriteData returns totalRows and the error.
WriteDataRow ==
    /\ rtpc = "write rows"
    /\ rtTotalRows < Len(rtData)
    /\ \E ok \in BOOLEAN :
         IF ok
         THEN /\ rtFile' = Append(rtFile,
                    WriterWrite(WriteDataRecord(rtData[rtTotalRows + 1], rtColumns),
                                Delim(rtDelimiter)))
              /\ rtTotalRows' = rtTotalRows + 1
              /\ UNCHANGED rtpc
         ELSE /\ rtpc' = "write failed"
              /\ UNCHANGED << rtFile, rtTotalRows >>
    /\ UNCHANGED << rtColumns, rtDelimiter, rtData, rtHeader, rtLine, rtOut, rtErr >>
    /\ UNCHANGED besideRoundTrip

\* data is closed: the final flush, and WriteData returns totalRows.
WriteDataReturn ==
    /\ rtpc = "write rows"
    /\ rtTotalRows = Len(rtData)
    /\ rtpc' = "read header"
    /\ UNCHANGED << rtColumns, rtDelimiter, rtData, rtTotalRows, rtFile, rtHeader,
                    rtLine, rtOut, rtErr >>
    /\ UNCHANGED besideRoundTrip

\* The lines reader.Read() passes over before its next record: the empty ones.
RECURSIVE BlankLines(_, _)
BlankLines(file, n) ==
    IF n < Len(file) /\ file[n + 1] = << >> THEN 1 + BlankLines(file, n + 1) ELSE 0

\* header, err := reader.Read() of ReadData.
ReadDataHeader ==
    /\ rtpc = "read header"
    /\ LET n == rtLine + BlankLines(rtFile, rtLine) IN
       IF n >= Len(rtFile)
       THEN /\ rtErr' = "failed to read header: EOF"
            /\ rtpc' = "done"
            /\ rtLine' = n
            /\ UNCHANGED rtHeader
       ELSE /\ rtHeader' = ParseFields(rtFile[n + 1], Delim(rtDelimiter))
            /\ rtLine' = n + 1
            /\ rtpc' = "read rows"
            /\ UNCHANGED rtErr
    /\ UNCHANGED << rtColumns, rtDelimiter, rtData, rtTotalRows, rtFile, rtOut >>
    /\ UNCHANGED besideRoundTrip

\* One turn of the reading goroutine's loop: reader.Read() returns io.EOF and
\* out is closed, or a record that is skipped for its field count or
\* converted and sent.
ReadDataRecord ==
    /\ rtpc = "read rows"
    /\ LET n == rtLine + BlankLines(rtFile, rtLine) IN
       IF n >= Len(rtFile)
       THEN /\ rtpc' = "done"
            /\ rtLine' = n
            /\ UNCHANGED rtOut
       ELSE LET record == ParseFields(rtFile[n + 1], Delim(rtDelimiter)) IN
            /\ rtLine' = n + 1
            /\ rtOut' = IF Len(record) # Len(rtHeader) THEN rtOut
                        ELSE Append(rtOut, ReadDataRow(record, rtHeader, rtColumns))
            /\ UNCHANGED rtpc
    /\ UNCHANGED << rtColumns, rtDelimiter, rtData, rtTotalRows, rtFile, rtHeader,
                    rtErr >>
    /\ UNCHANGED besideRoundTrip

RoundTripNext ==
    \/ WriteDataHeader
    \/ WriteDataRow
    \/ WriteDataReturn
    \/ ReadDataHeader
    \/ ReadDataRecord

RoundTripSpec == RoundTripInit /\ [][RoundTripNext]_vars


\* ================================================== the shared store adapter
\* The Connect calls made while the transfers run, and the batches a transfer
\* inserts.
MaxConnects == 2
MaxInserts == 2

\* The file-to-store transfers that share the adapter.
AdapterTransfers == {"t1", "t2"}

ConnectCalls == 1..MaxConnects

\* What a read of s.conn can yield: the field as it is, or, while a Connect
\* call is storing it, also the value being stored (the accesses are not
\* synchronised).
ConnReads == {adapterConn} \cup {connLocal[c] : c \in storing}

\* A store operation of transfer t on handle h, in the histories.  (A method
\* call on the nil handle panics and is no store operation.)
UseHandle(t, h) ==
    /\ useFirst' = [useFirst EXCEPT ![t] = IF @ = 0 THEN h ELSE @]
    /\ useMixed' = [useMixed EXCEPT ![t] = @ \/ (useFirst[t] # 0 /\ useFirst[t] # h)]

\* The adapter is connected (handle 1) or not; every transfer is about to call
\* CreateTable; the Connect calls have not started.
AdapterInit ==
    /\ TransferInit
    /\ ReadIdle
    /\ cfg = [BatchSize |-> 1, ProgressReportSize |-> 1]
    /\ dir = "invalid"
    /\ SchemaIdle
    /\ DiscoverIdle
    /\ JoinIdle
    /\ QueryIdle
    /\ CreateIdle
    /\ RoundTripIdle
    /\ adapterConn \in {0, 1}
    /\ opened = adapterConn
    /\ connLocal = [c \in ConnectCalls |-> 0]
    /\ connPc = [c \in ConnectCalls |-> "open"]
    /\ storing = {}
    /\ usePc = [t \in AdapterTransfers |-> "create check"]
    /\ useFirst = [t \in AdapterTransfers |-> 0]
    /\ useMixed = [t \in AdapterTransfers |-> FALSE]
    /\ useLeft \in [AdapterTransfers -> 1..MaxInserts]
    /\ raced = FALSE

\* conn, err := clickhouse.Open(options); conn.Ping(ctx): a new handle, or an
\* error and Connect returns.
ConnectOpen(c) ==
    /\ connPc[c] = "open"
    /\ \E ok \in BOOLEAN :
         IF ok
         THEN /\ opened' = opened + 1
              /\ connLocal' = [connLocal EXCEPT ![c] = opened + 1]
              /\ connPc' = [connPc EXCEPT ![c] = "store"]
         ELSE /\ connPc' = [connPc EXCEPT ![c] = "returned"]
              /\ UNCHANGED << opened, connLocal >>
    /\ UNCHANGED << adapterConn, storing, usePc, useFirst, useMixed, useLeft, raced >>
    /\ UNCHANGED besideAdapter

\* s.conn = conn begins: the store of the field is under way.
ConnectStoreBegin(c) ==
    /\ connPc[c] = "store"
    /\ storing' = storing \cup {c}
    /\ connPc' = [connPc EXCEPT ![c] = "storing"]
    /\ UNCHANGED << adapterConn, opened, connLocal, usePc, useFirst, useMixed,
                    useLeft, raced >>
    /\ UNCHANGED besideAdapter

\* s.conn = conn is done; return nil.
ConnectStoreEnd(c) ==
    /\ connPc[c] = "storing"
    /\ adapterConn' = connLocal[c]
    /\ storing' = storing \ {c}
    /\ connPc' = [connPc EXCEPT ![c] = "returned"]
    /\ UNCHANGED << opened, connLocal, usePc, useFirst, useMixed, useLeft, raced >>
    /\ UNCHANGED besideAdapter

\* if s.conn == nil { return ... } of CreateTable and of InsertData.
AdapterCheck(t) ==
    /\ usePc[t] \in {"create check", "insert check"}
    /\ \E h \in ConnReads :
         usePc' = [usePc EXCEPT ![t] =
                      IF h = 0 THEN "failed"
                      ELSE IF @ = "create check" THEN "create exec"
                      ELSE "insert"]
    /\ raced' = (raced \/ storing # {})
    /\ UNCHANGED << adapterConn, opened, connLocal, connPc, storing, useFirst,
                    useMixed, useLeft >>
    /\ UNCHANGED besideAdapter

\* s.conn.Exec(ctx, query) of CreateTable: the store answers or fails.
AdapterCreateExec(t) ==
    /\ usePc[t] = "create exec"
    /\ \E h \in ConnReads, ok \in BOOLEAN :
         IF h = 0
         THEN /\ usePc' = [usePc EXCEPT ![t] = "panicked"]
              /\ UNCHANGED << useFirst, useMixed >>
         ELSE /\ UseHandle(t, h)
              /\ usePc' = [usePc EXCEPT ![t] =
                              IF ok THEN "insert check" ELSE "failed"]
    /\ raced' = (raced \/ storing # {})
    /\ UNCHANGED << adapterConn, opened, connLocal, connPc, storing, useLeft >>
    /\ UNCHANGED besideAdapter

\* s.conn.AsyncInsert(ctx, query, batch, false) of InsertData, for a full
\* batch or the trailing one: the store answers or fails.
AdapterInsert(t) ==
    /\ usePc[t] = "insert"
    /\ \E h \in ConnReads, ok \in BOOLEAN :
         IF h = 0
         THEN /\ usePc' = [usePc EXCEPT ![t] = "panicked"]
              /\ UNCHANGED << useFirst, useMixed >>
         ELSE /\ UseHandle(t, h)
              /\ usePc' = [usePc EXCEPT ![t] =
                              IF ~ok THEN "failed"
                              ELSE IF useLeft[t] = 1 THEN "returned" ELSE "insert"]
    /\ useLeft' = [useLeft EXCEPT ![t] = @ - 1]
    /\ raced' = (raced \/ storing # {})
    /\ UNCHANGED << adapterConn, opened, connLocal, connPc, storing >>
    /\ UNCHANGED besideAdapter

AdapterNext ==
    \/ \E c \in ConnectCalls : ConnectOpen(c)
    \/ \E c \in ConnectCalls : ConnectStoreBegin(c)
    \/ \E c \in ConnectCalls : ConnectStoreEnd(c)
    \/ \E t \in AdapterTransfers : AdapterCheck(t)
    \/ \E t \in AdapterTransfers : AdapterCreateExec(t)
    \/ \E t \in AdapterTransfers : AdapterInsert(t)

AdapterSpec == AdapterInit /\ [][AdapterNext]_vars


\* =============================================== ReadData on any file
\* The most data rows of the file read, and the capacity of out (100 in the
\* code).
MaxReadRows == 2
ReadChanCap == 1

\* The Column lists requested: a column the file may have first or second, two
\* columns in an order of their own, a column no file here has.
ReadColumns ==
    { << [Name |-> << "a" >>, Type |-> "Int64"] >>,
      << [Name |-> << "b" >>, Type |-> "String"],
         [Name |-> << "a" >>, Type |-> "Int64"] >>,
      << [Name |-> << "c" >>, Type |-> "String"],
         [Name |-> << "a" >>, Type |-> Nullable("Int64")] >> }

\* The headers of the files read.
ReadHeaders == UNION {[1..n -> {<< "a" >>, << "b" >>}] : n \in 1..2}

\* The texts of a field.
ReadFields == {<< >>, << "4", "2" >>}

\* What reader.Read() can return for a data row: a record of one or two
\* fields, or an error with no usable record.
ReadOutcomes ==
    {[kind |-> "error", record |-> << >>]}
    \cup {[kind |-> "record", record |-> r] :
            r \in UNION {[1..n -> ReadFields] : n \in 1..2}}

\* The csv reader's own check: the field count of the first record is that
\* of every record (csv.ErrFieldCount otherwise).
ReadFails(outcome, hd) ==
    outcome.kind = "error" \/ Len(outcome.record) # Len(hd)

\* `if err != nil { continue }` and `if len(record) != len(header) { continue }`
Skipped(outcome, hd) ==
    ReadFails(outcome, hd) \/ Len(outcome.record) # Len(hd)

\* ReadData is called on a file with a header and up to MaxReadRows rows.
ReadInit ==
    /\ TransferInit
    /\ cfg = [BatchSize |-> 1, ProgressReportSize |-> 1]
    /\ dir = "invalid"
    /\ SchemaIdle
    /\ DiscoverIdle
    /\ JoinIdle
    /\ QueryIdle
    /\ CreateIdle
    /\ RoundTripIdle
    /\ AdapterIdle
    /\ rdColumns \in ReadColumns
    /\ rdHeader \in ReadHeaders
    /\ rdFile \in UNION {[1..n -> ReadOutcomes] : n \in 0..MaxReadRows}
    /\ rdFaulty \in BOOLEAN
    /\ rdNext = 0
    /\ rdRow = << >>
    /\ rdOut = << >>
    /\ rdClosed = FALSE
    /\ rdSentFrom = << >>
    /\ rdReceived = << >>
    /\ rdCtxDone = FALSE
    /\ rdErr = NoError
    /\ rdPc = "open"

\* os.Open, the csv reader and the header: ReadData returns the channel and
\* starts the goroutine, or returns an error.
ReadOpen ==
    /\ rdPc = "open"
    /\ \E ok \in BOOLEAN :
         IF ok
         THEN /\ rdPc' = "read"
              /\ UNCHANGED rdErr
         ELSE /\ rdPc' = "failed"
              /\ rdErr' = "failed to open file or to read header"
    /\ UNCHANGED << rdColumns, rdHeader, rdFile, rdFaulty, rdNext, rdRow, rdOut,
                    rdClosed, rdSentFrom, rdReceived, rdCtxDone >>
    /\ UNCHANGED besideRead

\* ctx is cancelled.
ReadCancel ==
    /\ rdPc \in {"read", "send"}
    /\ ~rdCtxDone
    /\ rdCtxDone' = TRUE
    /\ UNCHANGED << rdColumns, rdHeader, rdFile, rdFaulty, rdNext, rdRow, rdOut,
                    rdClosed, rdSentFrom, rdReceived, rdErr, rdPc >>
    /\ UNCHANGED besideRead

\* One turn of the loop up to the send: the cancellation check, then
\* reader.Read().  At the end of the rows the read returns io.EOF (break, and
\* the deferred close(out)), or, on a faulty file, an error: continue.
ReadTurn ==
    /\ rdPc = "read"
    /\ IF rdCtxDone
       THEN /\ rdPc' = "done"
            /\ rdClosed' = TRUE
            /\ UNCHANGED << rdNext, rdRow >>
       ELSE IF rdNext = Len(rdFile)
       THEN IF rdFaulty
            THEN UNCHANGED << rdPc, rdClosed, rdNext, rdRow >>
            ELSE /\ rdPc' = "done"
                 /\ rdClosed' = TRUE
                 /\ UNCHANGED << rdNext, rdRow >>
       ELSE /\ rdNext' = rdNext + 1
            /\ UNCHANGED rdClosed
            /\ IF Skipped(rdFile[rdNext + 1], rdHeader)
               THEN UNCHANGED << rdPc, rdRow >>
               ELSE /\ rdRow' = ReadDataRow(rdFile[rdNext + 1].record, rdHeader,
                                            rdColumns)
                    /\ rdPc' = "send"
    /\ UNCHANGED << rdColumns, rdHeader, rdFile, rdFaulty, rdOut, rdSentFrom,
                    rdReceived, rdCtxDone, rdErr >>
    /\ UNCHANGED besideRead

\* select { case out <- row: case <-ctx.Done(): return }
ReadSend ==
    /\ rdPc = "send"
    /\ \/ /\ Len(rdOut) < ReadChanCap
          /\ rdOut' = Append(rdOut, rdRow)
          /\ rdSentFrom' = Append(rdSentFrom, rdNext)
          /\ rdPc' = "read"
          /\ UNCHANGED rdClosed
       \/ /\ rdCtxDone
          /\ rdPc' = "done"
          /\ rdClosed' = TRUE
          /\ UNCHANGED << rdOut, rdSentFrom >>
    /\ UNCHANGED << rdColumns, rdHeader, rdFile, rdFaulty, rdNext, rdRow,
                    rdReceived, rdCtxDone, rdErr >>
    /\ UNCHANGED besideRead

\* The consumer receives a row from out.
ReadReceive ==
    /\ rdOut # << >>
    /\ rdReceived' = Append(rdReceived, Head(rdOut))
    /\ rdOut' = Tail(rdOut)
    /\ UNCHANGED << rdColumns, rdHeader, rdFile, rdFaulty, rdNext, rdRow, rdClosed,
                    rdSentFrom, rdCtxDone, rdErr, rdPc >>
    /\ UNCHANGED besideRead

\* The steps of ReadData and its goroutine.
ReadProgram == ReadOpen \/ ReadTurn \/ ReadSend

ReadNext == ReadProgram \/ ReadCancel \/ ReadReceive

ReadSpec == ReadInit /\ [][ReadNext]_vars

\* The goroutine is scheduled as long as it can take a step, and the consumer
\* keeps receiving.
ReadFairSpec == ReadSpec /\ WF_vars(ReadProgram) /\ WF_vars(ReadReceive)


\* ============================================================== properties
\* Positions of the events of progLog with completed = true.
CompletedEvents == { i \in DOMAIN progLog : progLog[i].completed }

\* Positions of the processing (non-terminal) events of progLog.
ProcessingEvents == { i \in DOMAIN progLog : progLog[i].status = "processing" }

\* The goroutine of StartIngestion has sent its terminal event.
TerminalSent == opc \in {"close", "done"}

\* The producer goroutine has returned (or was never started).
ProducerTerminated == ppc \in {"idle", "done"}

\* Handler, orchestrating goroutine and producer have all returned.
AllTerminated == hpc = "returned" /\ opc = "done" /\ ProducerTerminated

\* The message the store-fetch goroutine logs for its failure.
FailureMessage(f) ==
    IF f = "query" THEN "Failed to execute query" ELSE "Error iterating rows"

\* WriteData returned an error of its own (file system, or cancellation).
WriteDataFailed ==
    result.err \in {"failed to create file", "failed to write record",
                    "writer error", "context canceled"}

\* <<1, ..., n>>
FirstRows(n) == [i \in 1..n |-> i]

\* C1: once progressCh is closed, exactly one event with completed = true
\* was sent on it (by whichever task), and it is the last event sent.
C1_ExactlyOneCompletedEventLast ==
    progressClosed =>
        /\ Cardinality(CompletedEvents) = 1
        /\ progLog[Len(progLog)].completed

\* C2: when the terminal event is sent and progressCh is closed the producer
\* goroutine has terminated, and no task ever sends on the closed progressCh.
C2_SettledBeforeTerminalEvent ==
    /\ TerminalSent => ProducerTerminated
    /\ ~panicked

\* C3: once ctx is cancelled no task stays blocked for ever: a state in which
\* ctx is cancelled and no step of the program is possible is a state in
\* which handler, orchestrating goroutine and producer have all returned.
C3_NoTaskBlockedAfterCancel ==
    (ctxDone /\ ~panicked /\ ~ENABLED ProgramNext) => AllTerminated

\* C4: in a store->file transfer whose query failed or whose row iteration
\* ended with an error (and in which WriteData met no failure of its own),
\* IngestClickHouseToFlatFile returns a non-nil error and the terminal event
\* has status error and carries that failure's message.
C4_StoreFailureIsReportedOutcome ==
    (dir = "s2f" /\ srcFailure # "none" /\ TerminalSent /\ ~WriteDataFailed) =>
        /\ result.err # NoError
        /\ TerminalUpdate(result).status = "error"
        /\ TerminalUpdate(result).message = FailureMessage(srcFailure)

\* C5: in a file->store transfer in which a batch submit failed after k rows
\* were inserted, the terminal event and the returned result carry count k.
C5_PartialCountReported ==
    (dir = "f2s" /\ submitFailedAt >= 0 /\ TerminalSent) =>
        /\ TerminalUpdate(result).count = submitFailedAt
        /\ result.count = submitFailedAt

\* C6: after a task of the transfer has observed the cancellation (taken a
\* <-ctx.Done() branch), no further row is delivered to the sink.
C6_NoDeliveryAfterCancelObserved == sinkAfterObserved = 0

\* C7: a file->store transfer that was not cancelled and returned no error
\* reports as totalRecords the number of well-formed data rows of the file,
\* and the store received each of them exactly once.
C7_FileToStoreDeliversEveryRowOnce ==
    (dir = "f2s" /\ opc = "terminal" /\ ~ctxDone /\ result.err = NoError) =>
        /\ ppc = "done"
        /\ result.count = srcGood
        /\ sink = FirstRows(srcGood)

\* A transfer with a skipped row, a full batch and a trailing batch has ended.
C7_Witness ==
    /\ dir = "f2s" /\ opc = "terminal" /\ ~ctxDone /\ result.err = NoError
    /\ cfg.BatchSize = 2
    /\ srcGood = 3
    /\ srcReads > srcGood

\* C8: in both directions the rows delivered to the sink are, in order, a
\* prefix of the rows the producer sent into the data channel.
C8_SinkIsPrefixOfSent ==
    /\ Len(sink) <= Len(sent)
    /\ \A i \in 1..Len(sink) : sink[i] = sent[i]

\* A batch of two rows was submitted while a later row is still under way.
C8_Witness ==
    /\ dir = "f2s"
    /\ cfg.BatchSize = 2
    /\ Len(sink) >= 2
    /\ Len(sent) > Len(sink)

\* C9: the data channel never buffers more rows than its capacity, and while
\* it is full no step enqueues a row.
C9_DataChannelBounded ==
    /\ [](Len(dataCh) <= DataChanCap)
    /\ [][Len(dataCh) >= DataChanCap => sent' = sent]_vars

\* The producer holds a row and the data channel is full.
C9_Witness ==
    /\ Len(dataCh) = DataChanCap
    /\ ppc \in {"f_send", "r_send"}
    /\ ~ctxDone

\* C10 as stated: the counts of all processing events of a transfer are
\* strictly increasing in channel order, the store-fetch goroutine's and
\* WriteData's events taken together.
C10_CountsStrictlyIncreasingOverall ==
    \A i, j \in ProcessingEvents :
        i < j => progLog[i].count < progLog[j].count

\* C10 amended: the counts of the processing events of any one side (store
\* fetch, WriteData or InsertData) are strictly increasing in channel order;
\* in a file->store transfer InsertData is the only side, so there the whole
\* stream of processing events is strictly increasing.
C10_CountsStrictlyIncreasingPerSide ==
    /\ \A i, j \in ProcessingEvents :
          (i < j /\ progLog[i].from = progLog[j].from) =>
              progLog[i].count < progLog[j].count
    /\ dir = "f2s" => C10_CountsStrictlyIncreasingOverall

\* Both sides of a store->file transfer have reported, one of them twice.
C10_Witness ==
    /\ dir = "s2f"
    /\ \E i, j, k \in ProcessingEvents :
          /\ i < j /\ j < k
          /\ progLog[i].from = progLog[k].from
          /\ progLog[i].from # progLog[j].from

\* C11 as stated: every processing event, whichever side sent it, carries a
\* count that is a multiple of the configured ProgressReportSize.
C11_CountsMultipleOfReportSize ==
    \A i \in ProcessingEvents : progLog[i].count % cfg.ProgressReportSize = 0

\* C11 amended: the processing events of the store-fetch goroutine and of
\* WriteData carry a multiple of ProgressReportSize.  Those of InsertData
\* carry the cumulative count after a full batch: a multiple of BatchSize, at
\* least ProgressReportSize, and a multiple of ProgressReportSize when
\* ProgressReportSize divides BatchSize.
C11_CountsMultipleOfReportSizeOrBatchSize ==
    \A i \in ProcessingEvents :
        IF progLog[i].from = "inserter"
        THEN /\ progLog[i].count % cfg.BatchSize = 0
             /\ progLog[i].count >= cfg.ProgressReportSize
             /\ \A j \in ProcessingEvents :
                    j < i => progLog[i].count - progLog[j].count
                                 >= cfg.ProgressReportSize
             /\ cfg.BatchSize % cfg.ProgressReportSize = 0 =>
                    progLog[i].count % cfg.ProgressReportSize = 0
        ELSE progLog[i].count % cfg.ProgressReportSize = 0

\* InsertData reported 4 rows with BatchSize 2 and ProgressReportSize 3.
C11_Witness ==
    /\ dir = "f2s"
    /\ cfg = [BatchSize |-> 2, ProgressReportSize |-> 3]
    /\ \E i \in ProcessingEvents :
          progLog[i].from = "inserter" /\ progLog[i].count = 4

\* C12: the terminal event carries the number of rows the consumer delivered
\* to the sink, and on success that number is the result's totalRecords.
C12_TerminalCountIsRowsPersisted ==
    TerminalSent =>
        /\ TerminalUpdate(result).count = Len(sink)
        /\ result.err = NoError => TerminalUpdate(result).count = result.count

\* The producer took a <-ctx.Done() branch while it held a row it had read:
\* the data channel was closed before the source was passed on in full.
ProducerStoppedEarly == ppc = "done" /\ Len(sent) < srcGood

\* C13: a transfer whose producer stopped early because of the cancellation
\* does not end with a success terminal event and a nil error.
C13_NoSuccessAfterProducerCancelled ==
    (ProducerStoppedEarly /\ TerminalSent) =>
        ~(result.err = NoError /\ TerminalUpdate(result).status = "success")

\* The sum of a sequence of numbers.
RECURSIVE SumSeq(_)
SumSeq(s) == IF s = << >> THEN 0 ELSE Head(s) + SumSeq(Tail(s))

\* InsertData was entered and has returned.
InsertDataReturned == ppc # "idle" /\ opc \in {"terminal", "close", "done"}

\* Rows InsertData has taken off the data channel.
RowsReceived == Len(sent) - Len(dataCh)

\* C14: of the batches InsertData hands to AsyncInsert, every one but the
\* last holds exactly BatchSize rows and the last holds 1..BatchSize rows (a
\* short batch is submitted only after the stream ended, so none is empty),
\* and when InsertData has returned their sizes sum to the rows it received.
C14_BatchSizes ==
    dir = "f2s" =>
        /\ \A i \in 1..Len(submitted) :
              /\ submitted[i] \in 1..cfg.BatchSize
              /\ i < Len(submitted) => submitted[i] = cfg.BatchSize
        /\ (submitted # << >> /\ submitted[Len(submitted)] < cfg.BatchSize) =>
              InsertDataReturned
        /\ InsertDataReturned => SumSeq(submitted) = RowsReceived

\* A stream of three rows went out as a full batch and a trailing batch.
C14_Witness ==
    /\ dir = "f2s"
    /\ cfg.BatchSize = 2
    /\ submitted = << 2, 1 >>
    /\ InsertDataReturned
    /\ result.err = NoError

\* The count of the latest processing event sent (0: none was sent).
LastProcessingCount ==
    IF ProcessingEvents = {} THEN 0
    ELSE progLog[CHOOSE i \in ProcessingEvents :
                     \A j \in ProcessingEvents : j <= i].count

\* InsertData is between two rows, or has returned without error.
InsertDataSettled ==
    \/ opc \in {"i_range", "i_final"}
    \/ InsertDataReturned /\ result.err = NoError

\* C15 as stated: whenever InsertData is past a submit (back at its loop, or
\* returned without error, the trailing batch included), every advance of
\* the inserted count by ProgressReportSize or more since the last report
\* has been reported by a processing event carrying the cumulative count.
C15_EveryAdvanceReported ==
    (dir = "f2s" /\ InsertDataSettled) =>
        /\ totalRows - lastReportedCount < cfg.ProgressReportSize
        /\ lastReportedCount = LastProcessingCount

\* C15 amended: the same for the full batches submitted inside the loop,
\* where a due report is sent before the next row is taken.  The trailing
\* batch is followed by no report: the advance it causes is carried by no
\* processing event.
C15_FullBatchAdvancesReported ==
    dir = "f2s" =>
        /\ opc \in {"i_range", "i_final"} =>
              totalRows - lastReportedCount < cfg.ProgressReportSize
        /\ opc = "i_report" =>
              totalRows - lastReportedCount >= cfg.ProgressReportSize
        /\ lastReportedCount = LastProcessingCount
        /\ (InsertDataReturned /\ result.err = NoError /\ submitted # << >>
              /\ submitted[Len(submitted)] < cfg.BatchSize) =>
              LastProcessingCount < totalRows

\* A full batch was reported, then a trailing batch advanced the count by the
\* threshold or more and InsertData returned.
C15_Witness ==
    /\ dir = "f2s"
    /\ InsertDataReturned /\ result.err = NoError
    /\ lastReportedCount > 0
    /\ totalRows - lastReportedCount >= cfg.ProgressReportSize

\* C16: when a batch submit has failed, InsertData has returned an error
\* together with the number of rows of the batches submitted successfully
\* before; the failed batch is the last one handed to AsyncInsert (no retry,
\* no further batch) and the rows of the earlier batches are in the store.
C16_SubmitFailureAborts ==
    (dir = "f2s" /\ submitFailedAt >= 0) =>
        /\ InsertDataReturned
        /\ result.err # NoError
        /\ submitFailedAt = Len(sink)
        /\ sink = FirstRows(Len(sink))
        /\ SumSeq(submitted) = Len(sink) + submitted[Len(submitted)]

\* The second batch failed after the first, of two rows, was inserted, and
\* the transfer has run to its end.
C16_Witness ==
    /\ dir = "f2s"
    /\ cfg.BatchSize = 2
    /\ submitFailedAt = 2
    /\ Len(submitted) = 2
    /\ opc = "done"

\* The classifications inferType produces.
Classifications == {"String", "Int64", "Float64", "DateTime", "Nullable(String)"}

\* The column's type has been determined.
ColumnTyped == spc = "done"

ResolvedType ==
    IF "Int64" \in countKeys(types) /\ "Float64" \in countKeys(types)
    THEN "Float64" ELSE dominantType

\* C18: for every sample that contains an empty value (the Nullable(String)
\* classification) and resolves to a type other than String, the column type
\* is the resolved type wrapped in Nullable(...), also when the resolved type
\* is Float64 because Int64 and Float64 both occur.
C18_EmptyValueWrapsResolvedType ==
    (ColumnTyped /\ "Nullable(String)" \in countKeys(types)
       /\ ResolvedType # "String") =>
        columnType = "Nullable(" \o ResolvedType \o ")"

\* The types of the spec's closed taxonomy.
BaseTypes == {"String", "Int64", "Float64", "Bool", "DateTime"}

\* C19: every column type schema discovery produces is one of String, Int64,
\* Float64, Bool, DateTime or Nullable(T) with T one of these; no type is
\* wrapped twice.
C19_ColumnTypeInTaxonomy ==
    ColumnTyped =>
        columnType \in BaseTypes \cup {"Nullable(" \o t \o ")" : t \in BaseTypes}

\* C20: when Int64 and Float64 do not both occur in the sample, the type
\* resolved before Nullable wrapping is a modal classification of the sample:
\* no classification has a strictly higher count.
C20_DominantTypeIsModal ==
    (ColumnTyped /\ ~("Int64" \in countKeys(types) /\ "Float64" \in countKeys(types))) =>
        \A t \in Classifications : countOf(types, t) <= countOf(types, dominantType)

\* Two classifications tie for the highest count and a third occurs once.
C20_Witness ==
    /\ ColumnTyped
    /\ ~("Int64" \in countKeys(types) /\ "Float64" \in countKeys(types))
    /\ Len(types) = 3
    /\ countOf(types, dominantType) = 2
    /\ dominantType = "DateTime"

\* C21: getDominantType returns String for the empty sample and for every
\* sample whose classifications are all String.
C21_AllStringGivesString ==
    (ColumnTyped /\ \A i \in 1..Len(types) : types[i] = "String") =>
        columnType = "String"

\* A sample of two different texts has been reduced.
C21_Witness ==
    /\ ColumnTyped
    /\ Len(types) = 2
    /\ samples[1] # samples[2]
    /\ \A i \in 1..2 : types[i] = "String"
    /\ columnType = "String"

\* C22: inferType decides by the first rule that matches, in the order empty,
\* integer, float, date layout: the empty value is Nullable(String); a value
\* ParseInt accepts is Int64, also when ParseFloat accepts it; a value only
\* ParseFloat accepts is Float64; a value neither accepts and a layout
\* matches is DateTime; and a value is String exactly when it is non-empty
\* and none of the three rules matches.
C22_FirstMatchingRuleDecides ==
    \A i \in 1..Len(types) :
        LET v == samples[i] IN
        /\ v = << >> => types[i] = "Nullable(String)"
        /\ (v # << >> /\ ParsesAsInt(v)) => types[i] = "Int64"
        /\ (v # << >> /\ ~ParsesAsInt(v) /\ ParsesAsFloat(v)) => types[i] = "Float64"
        /\ (v # << >> /\ ~ParsesAsInt(v) /\ ~ParsesAsFloat(v) /\ ParsesAsDate(v)) =>
              types[i] = "DateTime"
        /\ types[i] = "String" <=>
              (v # << >> /\ ~ParsesAsInt(v) /\ ~ParsesAsFloat(v) /\ ~ParsesAsDate(v))

\* A value both ParseInt and ParseFloat accept was classified Int64, next to
\* a float, a date and a text.
C22_Witness ==
    /\ \E i \in 1..Len(types) :
          ParsesAsInt(samples[i]) /\ ParsesAsFloat(samples[i]) /\ types[i] = "Int64"
    /\ {"Float64", "DateTime", "String"} \subseteq countKeys(types)

\* Positions of the well-formed data rows of the file.
WellFormedPositions ==
    {k \in 1..Len(fileRows) :
        ~fileRows[k].err /\ Len(fileRows[k].record) = Len(header)}

\* DiscoverSchema has returned its columns.
DiscoverReturned == dpc = "returned" /\ derr = NoError

\* Every column's classifications are those of the rows classified, in order.
ClassifiedRowsOnly ==
    \A j \in 1..Len(header) :
        colTypes[j] = [n \in 1..Len(classified) |->
                          inferType(fileRows[classified[n]].record[j])]

\* C23: a malformed row neither aborts discovery nor contributes a
\* classification, and it does not count toward the sample: the rows
\* classified are the first min(SampleSize, number of well-formed rows)
\* well-formed data rows, in file order.
C23_SampleIsFirstWellFormedRows ==
    DiscoverReturned =>
        /\ ClassifiedRowsOnly
        /\ \A m, n \in 1..Len(classified) : m < n => classified[m] < classified[n]
        /\ {classified[n] : n \in 1..Len(classified)} =
              {k \in WellFormedPositions :
                  Cardinality({m \in WellFormedPositions : m <= k}) <= SampleSize}

\* C24: for a file whose header has h fields, whatever its data rows, a
\* DiscoverSchema that is not cancelled returns no error and exactly h
\* columns, the i-th named after the i-th header field, each with a
\* non-empty type.
C24_OneTypedColumnPerHeaderField ==
    (dpc = "returned" /\ derr # "context canceled") =>
        /\ derr = NoError
        /\ Len(columns) = Len(header)
        /\ \A i \in 1..Len(header) :
              /\ columns[i].Name = header[i]
              /\ columns[i].Type # ""

\* A file of two header fields and no well-formed data row has its columns.
C24_Witness ==
    /\ DiscoverReturned
    /\ Len(header) = 2
    /\ fileRows # << >>
    /\ WellFormedPositions = {}
    /\ columns[1].Name # columns[2].Name

\* BuildJoinQuery has been called.
JoinBuilt == jpc \in {"execute", "responded"}

\* Some table after the first has an empty join condition.
MissingJoinCondition ==
    \E i \in 2..Len(joinParams.Tables) : joinParams.Tables[i].JoinCondition = ""

\* No table has a selected column.
NoColumnSelected ==
    \A i \in 1..Len(joinParams.Tables) : joinParams.Tables[i].SelectedColumns = << >>

\* C25: BuildJoinQuery returns an error and the empty query when fewer
\* than two tables are given, when a table after the first has no join
\* condition, or when no column is selected in any table; otherwise it
\* returns a query and no error.
C25_MalformedJoinRejected ==
    JoinBuilt =>
        IF Len(joinParams.Tables) < 2 \/ MissingJoinCondition \/ NoColumnSelected
        THEN joinErr # NoError /\ joinQuery = ""
        ELSE joinErr = NoError /\ joinQuery # ""

\* Three tables with columns selected, the last one without a join condition.
C25_Witness ==
    /\ JoinBuilt
    /\ Len(joinParams.Tables) = 3
    /\ ~NoColumnSelected
    /\ joinParams.Tables[2].JoinCondition # ""
    /\ joinParams.Tables[3].JoinCondition = ""
    /\ joinErr # NoError

\* The select list the claim describes, from table i on: every selected
\* column as table.column, in table order then column order.
RECURSIVE ExpectedSelectList(_)
ExpectedSelectList(i) ==
    IF i > Len(joinParams.Tables) THEN ""
    ELSE LET t == joinParams.Tables[i]
             own == StringsJoin([k \in 1..Len(t.SelectedColumns) |->
                                    t.Name \o "." \o t.SelectedColumns[k]], ", ")
             rest == ExpectedSelectList(i + 1)
         IN  IF own = "" THEN rest
             ELSE IF rest = "" THEN own
             ELSE own \o ", " \o rest

\* The join clause the claim describes for table i.
ExpectedJoinClause(i) ==
    LET t == joinParams.Tables[i] IN
    " " \o (IF t.JoinType = "" THEN "INNER JOIN" ELSE t.JoinType)
        \o " " \o t.Name \o " ON " \o t.JoinCondition

\* The join clauses of tables i..n, in the order given.
RECURSIVE ExpectedJoinClauses(_)
ExpectedJoinClauses(i) ==
    IF i > Len(joinParams.Tables) THEN ""
    ELSE ExpectedJoinClause(i) \o ExpectedJoinClauses(i + 1)

\* C26: for a valid join request the query is SELECT, every selected column
\* once as table.column in table order then column order, FROM the first
\* table, one join clause per further table in the order given with the
\* table's join type or INNER JOIN, nothing of the first table's join type
\* or condition, and WHERE with the filter only when the filter is non-empty.
C26_JoinQueryShape ==
    (JoinBuilt /\ joinErr = NoError) =>
        joinQuery = "SELECT " \o ExpectedSelectList(1)
                      \o " FROM " \o joinParams.Tables[1].Name
                      \o ExpectedJoinClauses(2)
                      \o (IF joinParams.WhereClause = "" THEN ""
                          ELSE " WHERE " \o joinParams.WhereClause)

\* Three tables: the first with a join type and condition of its own and no
\* column, the second without a join type, the third with one, and a filter.
C26_Witness ==
    /\ JoinBuilt /\ joinErr = NoError
    /\ Len(joinParams.Tables) = 3
    /\ joinParams.Tables[1].JoinType # "" /\ joinParams.Tables[1].JoinCondition # ""
    /\ joinParams.Tables[1].SelectedColumns = << >>
    /\ joinParams.Tables[2].JoinType = ""
    /\ Len(joinParams.Tables[2].SelectedColumns) = 2
    /\ joinParams.Tables[3].JoinType # ""
    /\ joinParams.WhereClause # ""
    /\ joinQuery =
         "SELECT t2.a, t2.b FROM t1 INNER JOIN t2 ON x = y LEFT JOIN t3 ON x = y WHERE z > 1"

\* C27: BuildJoinQuery performs no store operation and does not depend on
\* the connection (its outcome is the same with and without one), and when
\* it fails the handler answers without a query reaching the store.
C27_RejectedBeforeStore ==
    /\ [](joinErr # NoError => storeQueries = << >> /\ jpc # "execute")
    /\ [][jpc = "build" =>
            /\ storeQueries' = storeQueries
            /\ connOpen' = connOpen
            /\ joinErr' = BuildJoinQuery(joinParams).err
            /\ joinQuery' = BuildJoinQuery(joinParams).query]_vars

\* A malformed request was answered while the store is not even connected.
C27_Witness ==
    /\ jpc = "responded"
    /\ joinErr # NoError
    /\ ~connOpen
    /\ response = "Failed to build join query"

\* The select list the claim describes: the names in Column-list order, each
\* but the last followed by ", ".
RECURSIVE ExpectedNames(_, _)
ExpectedNames(cols, i) ==
    IF i > Len(cols) THEN ""
    ELSE cols[i].Name \o (IF i < Len(cols) THEN ", " ELSE "")
                      \o ExpectedNames(cols, i + 1)

\* C28: in a store-to-file transfer the query executed against the store is
\* the caller's query, unchanged, when a non-empty query is supplied, and is
\* SELECT <column names joined by ", " in Column-list order> FROM <table>
\* when none is supplied; nothing else is executed.
C28_ExecutedQuery ==
    /\ Len(executed) <= 1
    /\ \A k \in 1..Len(executed) :
         executed[k] =
            IF ingestParams.Query # ""
            THEN ingestParams.Query
            ELSE "SELECT " \o ExpectedNames(ingestParams.Columns, 1)
                           \o " FROM " \o ingestParams.TableName

\* A transfer of table t with the columns b, a and no query has executed
\* SELECT b, a FROM t.
C28_Witness ==
    /\ ingestParams.Query = ""
    /\ ingestParams.TableName = "t"
    /\ columnNames(ingestParams.Columns) = << "b", "a" >>
    /\ executed = << "SELECT b, a FROM t" >>

\* The definitions the store holds of the table the calls name.
DefinitionsOfTable == {t \in storeTables : t.Name = createArgs.tableName}

RoundTripDone == rtpc = "done"

\* C30: writing N rows with WriteData and reading the file back with ReadData,
\* same Column list and delimiter, yields exactly N rows, in the same order,
\* each field's text equal to the text written for it, whatever the rows
\* hold, missing keys and null values included.
C30_RoundTrip ==
    RoundTripDone =>
        /\ rtErr = NoError
        /\ Len(rtOut) = Len(rtData)
        /\ \A k \in 1..Len(rtData) : \A i \in 1..Len(rtColumns) :
             Sprint(rtOut[k][i]) = WriteDataRecord(rtData[k], rtColumns)[i]

\* The number of rows alone: as many rows are read back as were written.
RoundTripKeepsRowCount == RoundTripDone => Len(rtOut) = Len(rtData)

\* C31: under any interleaving of concurrent transfers and Connect calls on
\* the same adapter, each transfer performs all of its store operations on one
\* and the same connection handle, and the handle is never read by one task
\* while another task replaces it.
C31_SafeForConcurrentUse ==
    /\ \A t \in AdapterTransfers : ~useMixed[t]
    /\ ~raced

\* The first half alone: every transfer stays on one handle.
TransfersKeepTheirHandle == \A t \in AdapterTransfers : ~useMixed[t]

\* Nothing of the source file has been touched and no row has moved: the
\* reading goroutine was never started, no row was read, sent, batched or
\* submitted.
NothingMoved ==
    /\ ppc = "idle"
    /\ srcReads = 0
    /\ sent = << >>
    /\ batch = << >>
    /\ submitted = << >>
    /\ sink = << >>

\* C32: in a file-to-store transfer table creation completes before the source
\* file is opened and before any row is read or inserted; if the store is not
\* connected or table creation fails, the transfer returns an error with no
\* file opened, no row moved and no processing event emitted.
C32_TableBeforeFile ==
    /\ [](dir = "f2s" /\ opc \in {"start", "create"} => NothingMoved)
    /\ [](dir = "f2s" /\ result.err = "failed to create table" =>
             NothingMoved /\ ProcessingEvents = {})
    /\ [][dir = "f2s" /\ opc = "create" /\ opc' # opc =>
             \/ opc' = "open" /\ result' = result
             \/ /\ opc' = "terminal"
                /\ result' = [count |-> 0, err |-> "failed to create table"]]_vars
    /\ [][dir = "f2s" /\ ppc = "idle" /\ ppc' # "idle" => opc = "open"]_vars

\* A file-to-store transfer whose table creation failed has sent its terminal
\* event.
C32_Witness ==
    /\ dir = "f2s"
    /\ result.err = "failed to create table"
    /\ TerminalSent
    /\ NothingMoved

\* The rows ReadData has produced, in order: those received and those still
\* in out.
RowsProduced == rdReceived \o rdOut

\* The positions in the header of the fields called name.
FieldsNamed(name) == {j \in 1..Len(rdHeader) : rdHeader[j] = name}

\* C33: every row ReadData produces has exactly one value per requested
\* Column, in Column-list order; position i holds the converted value of the
\* file field whose header name is the i-th Column's name, whatever the
\* file's column order, and null when the file has no field of that name.
C33_RowsMatchColumnsByName ==
    \A k \in 1..Len(RowsProduced) :
        LET row    == RowsProduced[k]
            record == rdFile[rdSentFrom[k]].record
        IN  /\ Len(row) = Len(rdColumns)
            /\ \A i \in 1..Len(rdColumns) :
                 IF FieldsNamed(rdColumns[i].Name) = {}
                 THEN row[i] = NilValue
                 ELSE \E j \in FieldsNamed(rdColumns[i].Name) :
                        row[i] = convertValue(record[j], rdColumns[i].Type)

\* The file's columns are a and b, the request is for b and then a: the row
\* read from the record (42, "") holds "" and then 42.
C33_Witness ==
    /\ rdHeader = << << "a" >>, << "b" >> >>
    /\ Len(rdColumns) = 2
    /\ rdColumns[1].Name = << "b" >>
    /\ rdReceived # << >>
    /\ rdFile[rdSentFrom[1]].record = << << "4", "2" >>, << >> >>
    /\ rdReceived[1] = << StringValue(<< >>), IntValue(42) >>

\* C34: in ReadData a data row whose field count differs from the header's,
\* or which fails to parse, is skipped: it is never sent on the output
\* channel, it does not stop the stream (the goroutine goes on reading and
\* every later well-formed row is still produced), and it is not counted in
\* the transfer's totalRecords or progress counts.
C34_SkippedRowsLeaveNoTrace ==
    /\ [](dir = "f2s" =>
            /\ sent = FirstRows(Len(sent))
            /\ Len(sent) <= srcGood
            /\ result.count <= srcGood
            /\ \A i \in DOMAIN progLog : progLog[i].count <= srcGood)
    /\ [][(dir = "f2s" /\ srcReads' = srcReads + 1 /\ srcGood' = srcGood) =>
             /\ ppc' = "read"
             /\ ~dataClosed'
             /\ sent' = sent
             /\ dataCh' = dataCh]_vars
    /\ [](dir = "f2s" /\ ppc = "done" /\ ~ctxDone => Len(sent) = srcGood)

\* A file with a skipped row before its last well-formed row has been read to
\* its end, and the transfer reports the two well-formed rows.
C34_Witness ==
    /\ dir = "f2s"
    /\ ppc = "done"
    /\ ~ctxDone
    /\ srcReads = 3
    /\ srcGood = 2
    /\ Len(sent) = 2
    /\ opc = "terminal"
    /\ result = [count |-> 2, err |-> NoError]

\* C35: the row sequence ReadData produces is finite: for every file and
\* without cancellation, provided the consumer keeps receiving, the reading
\* goroutine eventually closes the output channel and terminates, also when a
\* read of the underlying file returns an error other than end-of-file.
C35_ReaderTerminates ==
    ([]~rdCtxDone) => <>(rdPc \in {"done", "failed"})

\* The same for the files whose reads reach end-of-file.
ReaderTerminatesOnSoundFile ==
    ([]~rdCtxDone /\ ~rdFaulty) => <>(rdPc \in {"done", "failed"})

\* The record the claim describes for a row: per Column, in Column-list order,
\* the text of the row's value under the Column's name, or the empty field.
ExpectedRecord(row) ==
    [i \in 1..Len(rtColumns) |->
        IF \E key \in DOMAIN row : key = rtColumns[i].Name
        THEN Sprint(row[rtColumns[i].Name])
        ELSE << >>]

\* WriteData has returned (with an error, or with none and the file is being
\* read back).
WriteDataHasReturned == rtpc \notin {"idle", "write header", "write rows"}

Sides == {"fetch", "writer", "inserter"}

ProcessedBy(side) == IF side = "fetch" THEN fetchTotalRows ELSE totalRows

\* Positions in progLog of the events side emitted.
EventsOf(side) == { i \in DOMAIN progLog : progLog[i].from = side }

\* C37: the progress counts emitted by any single side of a transfer (the
\* store-fetch task, WriteData, or InsertData) are monotonically
\* non-decreasing in the order that side emits them, and never exceed the
\* number of rows that side has processed so far.
C37_CountsPerSideMonotoneAndBounded ==
    \A side \in Sides :
        /\ \A i, j \in EventsOf(side) :
              i < j => progLog[i].count <= progLog[j].count
        /\ \A i \in EventsOf(side) : progLog[i].count <= ProcessedBy(side)

\* Both sides of a store-to-file transfer have reported, WriteData twice, and
\* WriteData has since written a further record.
C37_Witness ==
    /\ EventsOf("fetch") # {}
    /\ \E i, j \in EventsOf("writer") :
          /\ i < j
          /\ progLog[i].count < progLog[j].count
          /\ progLog[j].count < totalRows

\* C38: getDominantType is a deterministic function of the multiset of sample
\* classifications: any other evaluation on the same samples returns the type
\* this one returned, also when classifications tie for the highest count.
C38_DominantTypeDeterministic ==
    spc = "done" =>
        \A order \in IterationOrders(countKeys(types)) :
            getDominantType(types, order) = columnType

\* The same for the samples in which one classification has the highest count
\* alone.
DeterministicWithoutTie ==
    (spc = "done" /\ \E t \in countKeys(types) :
        \A u \in countKeys(types) \ {t} : countOf(types, u) < countOf(types, t)) =>
        \A order \in IterationOrders(countKeys(types)) :
            getDominantType(types, order) = columnType

\* WriteData has created (and so truncated) the target file and written the
\* header: it is in its loop, or it has returned from there.
TargetFileWritten ==
    /\ dir = "s2f"
    /\ \/ opc \in {"w_range", "w_write", "w_report"}
       \/ opc \in {"terminal", "close", "done"} /\ result.err # "failed to create file"

\* C39: a store-to-file transfer that fails because the store query cannot be
\* executed leaves the target file untouched: the file is not created,
\* truncated or written (no header) when no row could be fetched.
C39_QueryFailureLeavesFileUntouched ==
    (dir = "s2f" /\ srcFailure = "query") => ~TargetFileWritten

=============================================================================
